---- MODULE Spec2Model ----
(***************************************************************************)
(* A model of the AI-assistance performance agent of devtools-frontend:    *)
(* PerformanceAgent (context facts, function-result cache, declared       *)
(* functions, query enhancement) on top of the AiAgent run loop and the    *)
(* panel's conversation history.                                           *)
(***************************************************************************)
EXTENDS Integers, Sequences, FiniteSets, TLC

(***************************************************************************)
(* Bounds of the model.                                                    *)
(***************************************************************************)
MaxTurns == 3
MaxCalls == 1
MaxCallTurns == 1
MaxFunctionCalls == 2
MaxLoopTurns == 2
MaxLoopCalls == 1
MaxChunks == 1
MaxCacheTurns == 3
MaxCacheCalls == 2
MaxParseTurns == 1
MaxErrorTurns == 2
MaxErrorCalls == 1
MaxTicks == 6
MaxPieces == 2
MaxViewCalls == 8
MaxConversations == 2
MaxPanelTurns == 2
MaxPanelSteps == 1
MaxGdpCalls == 2
MaxGdpRequests == 3
MaxFocuses == 3
MaxInsightTurns == 4
MaxFormatterTurns == 2
MaxFormatterCalls == 1
MaxSearchId == 3
MaxSearchResults == 2
MaxSignUps == 2

Null == "null"

(***************************************************************************)
(* The objects of one conversation.  Every context of a conversation wraps *)
(* a focus on the same parsed trace (the origin is the trace bounds).      *)
(***************************************************************************)
CallTrees == {"T1", "T2"}
Insights == {"I1", "I2"}
Foci == {"F1", "F2", "F3", "F4", "F5"}
Contexts == {"cA", "cB", "cC", "cD", "cE"}

\* AgentFocus data: the call tree, the insight and the insight set of a focus.
FocusData(f) ==
  CASE f = "F1" -> [callTree |-> Null, insight |-> "I1", insightSet |-> "S1"]
    [] f = "F2" -> [callTree |-> Null, insight |-> "I2", insightSet |-> "S1"]
    [] f = "F3" -> [callTree |-> "T1", insight |-> Null, insightSet |-> "S1"]
    [] f = "F4" -> [callTree |-> "T1", insight |-> "I2", insightSet |-> "S1"]
    [] f = "F5" -> [callTree |-> "T2", insight |-> Null, insightSet |-> Null]

\* PerformanceTraceContext: the focus it wraps and its public 'external' field.
getItem(c) ==
  CASE c = "cA" -> "F1"
    [] c = "cB" -> "F2"
    [] c = "cC" -> "F3"
    [] c = "cD" -> "F4"
    [] c = "cE" -> "F5"

external(c) == c \in {"cB", "cE"}

\* insight.insightKey
insightKey(i) == IF i = "I1" THEN "LCPBreakdown" ELSE "RenderBlocking"

\* AICallTree.serialize(): a non-empty text that names the tree.
serialize(t) == "calltree:" \o t

(***************************************************************************)
(* ScorePriority                                                           *)
(***************************************************************************)
REQUIRED == 3
CRITICAL == 2
DEFAULT == 1

(***************************************************************************)
(* Facts.  A fact is its text and its metadata {source, score}; the text   *)
(* of a summary fact names the focus whose formatter produced it.          *)
(***************************************************************************)
Fact(text, source, score) == [text |-> text, source |-> source, score |-> score]

notExternalExtraPreambleFact == Fact("extraPreambleWhenNotExternal", "devtools", CRITICAL)
networkDataDescriptionFact == Fact("networkDataFormatDescription", "devtools", CRITICAL)
callFrameDataDescriptionFact == Fact("callFrameDataFormatDescription", "devtools", CRITICAL)

\* The five summaries a PerformanceTraceFormatter produces, in the order
\* #addFacts asks for them.
SummaryKinds ==
  <<"TraceSummary", "CriticalRequests", "MainThreadBottomUpSummary",
    "ThirdPartySummary", "LongestTasks">>

\* The text the formatter built from focus f returns for a summary; "" when the
\* trace has nothing to report for it.
formatSummary(f, kind) ==
  CASE f = "F3" /\ kind \notin {"TraceSummary", "CriticalRequests"} -> ""
    [] f = "F5" -> ""
    [] OTHER -> kind \o " of " \o f


(***************************************************************************)
(* VARIABLES                                                               *)
(***************************************************************************)
VARIABLES
  \* PerformanceAgent
  formatter,                    \* #formatter: the focus it was built from, or Null
  lastInsightForEnhancedQuery,  \* an insight, or Null for undefined
  hasShownAnalyzeTraceContext,
  functionCallCacheForFocus,    \* focus -> the entries of its record, in insertion order
  traceFacts,                   \* #traceFacts
  callTreeContextSet,           \* #callTreeContextSet
  \* AiAgent
  facts,                        \* the fact store, in insertion order
  declaredFunctions,            \* the names of the declared functions
  declaredFocus,                \* the focus the declared handlers close over
  \* the run loop of one turn
  pc,                           \* "idle", "model" (awaiting a chunk), "handler"
  selected,                     \* options.selected of the turn in progress
  aborted,                      \* options.signal.aborted
  partial,                      \* number of answer chunks received from the current request
  pendingCall,                  \* the function call being serviced
  events,                       \* the responses yielded in this turn
  \* the panel's conversation
  history,                      \* the items passed to Conversation.addHistoryItem
  messages,                     \* the messages shown by the view
  \* environment
  canReadResources,             \* recordingIsFresh(parsedTrace) || hasScriptContents
  \* observation
  runLog,                       \* per run: its context and what it sent and yielded
  callLog,                      \* every handler invocation, in order
  enhancedQuery,                \* the result of the last enhanceQuery
  \* the response parser
  response,                     \* the text the model answers with
  linked,                       \* what #parseForKnownUrls made of it
  parsed,                       \* the text handed to the base parser
  \* the AI assistance panel
  widgetShown,                  \* the widget is shown
  flavors,                      \* UI.Context: the item of each flavor
  toggled,                      \* toggleSearchElementAction.toggled()
  selectedItems,                \* the item the panel holds for each flavor
  conversation,                 \* the current conversation
  conversationAgent,            \* its agent, or NoAgent
  chatMessages,                 \* the messages of the chat
  isLoading,                    \* a run is in progress
  historicalConversations,      \* the stored conversations
  view,                         \* the view: its call count and its last input
  turnResponses,                \* the responses of the turn in progress
  recorded,                     \* per conversation: its messages as last shown live
  lastOp,                       \* the last operation on the panel
  \* GdpClient
  hostConfig,                   \* Root.Runtime.hostConfig
  promises,                     \* the promises of the requests made, in order
  cachedProfilePromise,         \* #cachedProfilePromise, or NoPromise
  cachedEligibilityPromise,     \* #cachedEligibilityPromise, or NoPromise
  profileCalls,                 \* the getProfile calls, in order
  \* AgentFocus
  dataObjects,                  \* the AgentFocusData objects, in order of creation
  focuses,                      \* the AgentFocus objects: the data object each holds in #data
  focusCall,                    \* the last call: its receiver, the receiver's data before, its result
  \* SearchView
  searchView,                   \* its fields, the searches it asked for, the results queued
  \* GdpSignUpDialog
  signUpDialog                  \* its fields, the view input, the #onSignUpClick calls in flight

agentVars ==
  <<formatter, lastInsightForEnhancedQuery, hasShownAnalyzeTraceContext,
    functionCallCacheForFocus, traceFacts, callTreeContextSet>>
baseVars == <<facts, declaredFunctions, declaredFocus>>
loopVars == <<pc, selected, aborted, partial, pendingCall, events>>
panelVars == <<history, messages>>
obsVars == <<runLog, callLog, enhancedQuery>>
parseVars == <<response, linked, parsed>>
viewVars ==
  <<widgetShown, flavors, toggled, selectedItems, conversation, conversationAgent, chatMessages,
    isLoading, historicalConversations, view, turnResponses, recorded, lastOp>>
gdpVars ==
  <<hostConfig, promises, cachedProfilePromise, cachedEligibilityPromise, profileCalls>>
focusVars == <<dataObjects, focuses, focusCall>>
searchVars == <<searchView>>
dialogVars == <<signUpDialog>>
outerVars == <<viewVars, gdpVars, focusVars, searchVars, dialogVars>>
assistantVars ==
  <<agentVars, baseVars, loopVars, panelVars, canReadResources, parseVars, obsVars>>
vars == <<assistantVars, outerVars>>

Range(s) == {s[i] : i \in 1..Len(s)}

(***************************************************************************)
(* AiAgent: fact store and function registry                               *)
(***************************************************************************)
\* clearFacts()
clearFacts == <<>>

\* addFact(fact): the store is an ordered set.
addFact(fs, fact) == IF fact \in Range(fs) THEN fs ELSE Append(fs, fact)

RECURSIVE addFactsOf(_, _)
addFactsOf(fs, new) ==
  IF new = <<>> THEN fs ELSE addFactsOf(addFact(fs, Head(new)), Tail(new))

\* clearDeclaredFunctions()
clearDeclaredFunctions == {}

(***************************************************************************)
(* PerformanceAgent: facts                                                 *)
(***************************************************************************)
\* #createFactForTraceSummary .. #createFactForLongestTasks: the fact pushed to
\* #traceFacts for one summary of the formatter built from focus f.
createFactFor(f, kind) ==
  IF kind = "TraceSummary"
    THEN Fact("Trace summary:\n" \o formatSummary(f, kind), "devtools", REQUIRED)
    ELSE Fact(formatSummary(f, kind), "devtools", CRITICAL)

\* The five #createFactFor... calls of #addFacts: a summary with no text pushes nothing.
RECURSIVE createTraceFacts(_, _)
createTraceFacts(f, kinds) ==
  IF kinds = <<>> THEN <<>>
  ELSE (IF formatSummary(f, Head(kinds)) = "" THEN <<>> ELSE <<createFactFor(f, Head(kinds))>>)
         \o createTraceFacts(f, Tail(kinds))

\* #addFacts, were the cache one record shared by every focus.
cachedFactsOfEveryFocus(cache, f) ==
  LET all == cache["F1"] \o cache["F2"] \o cache["F3"] \o cache["F4"] \o cache["F5"]
  IN [i \in 1..Len(all) |-> all[i].fact]

\* Object.values(cachedFunctionCalls)
cachedFacts(cache, f) == [i \in 1..Len(cache[f]) |-> cache[f][i].fact]

\* #addFacts(context): the new #traceFacts, #formatter and fact store.
addFactsTraceFacts(c, tf) ==
  IF Len(tf) = 0 THEN createTraceFacts(getItem(c), SummaryKinds) ELSE tf

addFactsFormatter(c, tf, fmt) == IF Len(tf) = 0 THEN getItem(c) ELSE fmt

addFactsStatic(c) ==
  (IF ~external(c) THEN <<notExternalExtraPreambleFact>> ELSE <<>>)
    \o <<callFrameDataDescriptionFact, networkDataDescriptionFact>>

\* #addFacts, were it to add the cached function-call facts first.
addFactsCachedFirst(c, fs, tf, cache) ==
  addFactsOf(addFactsOf(addFactsOf(fs, cachedFacts(cache, getItem(c))), addFactsStatic(c)),
             addFactsTraceFacts(c, tf))

addFacts(c, fs, tf, cache) ==
  addFactsOf(addFactsOf(addFactsOf(fs, addFactsStatic(c)), addFactsTraceFacts(c, tf)),
             cachedFacts(cache, getItem(c)))

\* PerformanceAgent.run, before it hands over to AiAgent.run.
runFacts(c, tf, cache) == IF c # Null THEN addFacts(c, clearFacts, tf, cache) ELSE clearFacts

\* #cacheFunctionResult, were it to keep the entry a key already has.
cacheFunctionResultKeepingFirst(cache, f, key, result) ==
  LET old == cache[f]
  IN IF \E i \in 1..Len(old) : old[i].key = key
       THEN cache
       ELSE [cache EXCEPT ![f] = Append(old, [key |-> key,
               fact |-> Fact("This is the result of calling " \o key \o ":\n" \o result,
                             key, DEFAULT)])]

\* #cacheFunctionResult(focus, key, result)
cacheFact(key, result) ==
  Fact("This is the result of calling " \o key \o ":\n" \o result, key, DEFAULT)

\* #cacheFunctionResult, were the record of a focus to hold the latest result only.
cacheFunctionResultLatestOnly(cache, f, key, result) ==
  [cache EXCEPT ![f] = <<[key |-> key, fact |-> cacheFact(key, result)]>>]

cacheFunctionResult(cache, f, key, result) ==
  LET old == cache[f]
      entry == [key |-> key, fact |-> cacheFact(key, result)]
      new == IF \E i \in 1..Len(old) : old[i].key = key
               THEN [i \in 1..Len(old) |-> IF old[i].key = key THEN entry ELSE old[i]]
               ELSE Append(old, entry)
  IN [cache EXCEPT ![f] = new]


(***************************************************************************)
(* PerformanceAgent: declared functions and query enhancement              *)
(***************************************************************************)
\* #declareFunctions(context): the names it declares, in order.
declareFunctions(c, canRead) ==
  {"getInsightDetails", "getEventByKey", "getMainThreadTrackSummary",
   "getNetworkTrackSummary", "getDetailedCallTree"}
    \cup (IF canRead THEN {"getResourceContent"} ELSE {})
    \cup (IF ~external(c) THEN {"selectEventByKey"} ELSE {})

\* declareFunction(name, ...) for each name of a batch, on top of the set `old`.
declareFunction(old, names) == old \cup names

\* enhanceQuery, were it to declare without clearing first.
enhanceQueryDeclaredWithoutClear(old, c, canRead) ==
  IF c = Null THEN old ELSE declareFunction(old, declareFunctions(c, canRead))

\* enhanceQuery: the set of declared functions it leaves.
enhanceQueryDeclared(old, c, canRead) ==
  IF c = Null
    THEN clearDeclaredFunctions
    ELSE declareFunction(clearDeclaredFunctions, declareFunctions(c, canRead))

\* enhanceQuery: does it prepend the call tree of the focus?
includeCallTree(c, treeSet) ==
  /\ c # Null
  /\ FocusData(getItem(c)).callTree # Null
  /\ FocusData(getItem(c)).callTree \notin treeSet
  /\ serialize(FocusData(getItem(c)).callTree) # ""

\* enhanceQuery, were it to remember only the call tree sent last.
enhanceQueryCallTreeSetLastOnly(c, treeSet) ==
  IF c # Null /\ FocusData(getItem(c)).callTree # Null
    THEN {FocusData(getItem(c)).callTree}
    ELSE treeSet

\* enhanceQuery: #callTreeContextSet after the call.
enhanceQueryCallTreeSet(c, treeSet) ==
  IF c # Null /\ FocusData(getItem(c)).callTree # Null
    THEN treeSet \cup {FocusData(getItem(c)).callTree}
    ELSE treeSet

\* enhanceQuery, were it to send the insight with every query.
includeInsightInfoAlways(c, last) ==
  /\ c # Null
  /\ FocusData(getItem(c)).insight # Null

\* enhanceQuery: does it prepend the insight of the focus?
includeInsightInfo(c, last) ==
  /\ c # Null
  /\ FocusData(getItem(c)).insight # Null
  /\ FocusData(getItem(c)).insight # last

\* enhanceQuery, were it never to remember the insight it sent.
enhanceQueryLastInsightForgotten(c, last) == last

\* enhanceQuery: #lastInsightForEnhancedQuery after the call.
enhanceQueryLastInsight(c, last) ==
  IF c # Null /\ FocusData(getItem(c)).insight # Null
    THEN FocusData(getItem(c)).insight
    ELSE last

\* enhanceQuery: the query it returns.
enhanceQuery(query, c, treeSet, last) ==
  LET tree == IF includeCallTree(c, treeSet)
                THEN "User selected the following call tree:\n\n"
                       \o serialize(FocusData(getItem(c)).callTree) \o "\n\n"
                ELSE ""
      insight == IF includeInsightInfo(c, last)
                   THEN "User selected the "
                          \o insightKey(FocusData(getItem(c)).insight) \o " insight.\n\n"
                   ELSE ""
  IN IF tree = "" /\ insight = ""
       THEN query
       ELSE tree \o insight \o "# User query\n\n" \o query

\* handleContextDetails(context): does it yield a CONTEXT response?
handleContextDetails(c, shown) == c # Null /\ ~shown

\* handleContextDetails, were the flag set before the context is looked at.
handleContextDetailsShownAlways(c, shown) == TRUE

\* handleContextDetails: #hasShownAnalyzeTraceContext after the generator has run.
handleContextDetailsShown(c, shown) == IF c # Null THEN TRUE ELSE shown


(***************************************************************************)
(* PerformanceAgent: the handlers of the declared functions                *)
(***************************************************************************)
MAX_FUNCTION_RESULT_BYTE_LENGTH == 16384 * 4

\* parsedTrace.data.Meta.traceBounds
TraceBoundsMin == 2
TraceBoundsMax == 3

\* Template-literal rendering of the numbers that occur as bounds.
Str(n) ==
  CASE n = 0 -> "0" [] n = 1 -> "1" [] n = 2 -> "2" [] n = 3 -> "3" [] n = 4 -> "4"
    [] n = 5 -> "5" [] OTHER -> "n"

\* The arguments of a call: a string argument or a pair of bounds.
Args(str, min, max) == [s |-> str, min |-> min, max |-> max]

\* insightSet?.model[insightName]
insightOfSet(set, name) == IF set = "S1" /\ name = "LCPBreakdown" THEN "LCPBreakdown@S1" ELSE Null

\* eventsSerializer.eventForKey(key, parsedTrace): the event, or the error it
\* throws: 'Unknown trace event' for a key of no known kind, another error for
\* a key of a known kind that has no event (a frame index out of range).
eventForKey(key) ==
  CASE key = "r-1" -> [event |-> "E1", error |-> ""]
    [] key = "l-9" -> [event |-> Null, error |-> "Could not find frame with index 9"]
    [] OTHER -> [event |-> Null, error |-> "Unknown trace event"]

\* AgentFocus.lookupEvent(key): the event, null for an unknown key, or the
\* error it throws again.
lookupEvent(key) ==
  LET found == eventForKey(key)
  IN IF found.error = "" THEN [event |-> found.event, thrown |-> ""]
     ELSE IF found.error \in {"Unknown trace event", "Unknown profile call"}
       THEN [event |-> Null, thrown |-> ""]
       ELSE [event |-> Null, thrown |-> found.error]

\* SDK.ResourceTreeModel.resourceForURL(url)
resourceForURL(url) == IF url = "u1" THEN "R1" ELSE Null

\* #isFunctionResponseTooLarge(response)
isFunctionResponseTooLarge(length) == length > MAX_FUNCTION_RESULT_BYTE_LENGTH

\* createBounds(min, max): the clamped window, or NullBounds for null.
NullBounds == [min |-> -1, max |-> -1]

Max2(a, b) == IF a > b THEN a ELSE b
Min2(a, b) == IF a < b THEN a ELSE b

createBounds(min, max) ==
  IF min > max THEN NullBounds
  ELSE LET clampedMin == Max2(min, TraceBoundsMin)
           clampedMax == Min2(max, TraceBoundsMax)
       IN IF clampedMin > clampedMax THEN NullBounds
          ELSE [min |-> clampedMin, max |-> clampedMax]

\* What a handler did: {result} or {error} or a thrown exception, and the
\* entry it cached (key "" when it cached nothing).
Returned(result, key) == [status |-> "result", value |-> result, key |-> key]
Failed(error) == [status |-> "error", value |-> error, key |-> ""]
Thrown(error) == [status |-> "throw", value |-> error, key |-> ""]

\* The length of a text a collaborator returns (a summary of the formatter, the
\* content of a resource), as the environment decides.
summaryLength(text, size) ==
  CASE size = "max" -> MAX_FUNCTION_RESULT_BYTE_LENGTH
    [] size = "over" -> MAX_FUNCTION_RESULT_BYTE_LENGTH + 1
    [] OTHER -> Len(text)

getInsightDetails(a, f) ==
  LET insight == insightOfSet(FocusData(f).insightSet, a.s)
      details == "details of " \o a.s \o " for " \o f
  IN IF insight = Null THEN Failed("No insight available")
     ELSE Returned(details, "getInsightDetails('" \o a.s \o "')")

getEventByKey(a, f) ==
  LET found == lookupEvent(a.s)
  IN IF found.thrown # "" THEN Thrown(found.thrown)
     ELSE IF found.event = Null THEN Failed("Invalid eventKey")
     ELSE Returned("json of " \o found.event, "getEventByKey('" \o a.s \o "')")

\* getMainThreadTrackSummary and getNetworkTrackSummary
getTrackSummary(name, a, fmt, env) ==
  LET bounds == createBounds(a.min, a.max)
  IN IF fmt = Null THEN Thrown("missing formatter")
     ELSE IF bounds = NullBounds THEN Failed("invalid bounds")
     ELSE LET summary == name \o " " \o Str(bounds.min) \o ".." \o Str(bounds.max)
                           \o " by formatter of " \o fmt \o " (" \o env.size \o ")"
          IN IF isFunctionResponseTooLarge(summaryLength(summary, env.size))
               THEN Failed(name \o " response is too large. Try investigating using other functions, or a more narrow bounds")
               ELSE Returned(summary,
                             name \o "({min: " \o Str(bounds.min) \o ", max: "
                               \o Str(bounds.max) \o "})")

getDetailedCallTree(a, fmt) ==
  LET found == lookupEvent(a.s)
  IN IF fmt = Null THEN Thrown("missing formatter")
     ELSE IF found.thrown # "" THEN Thrown(found.thrown)
     ELSE IF found.event = Null THEN Failed("Invalid eventKey")
     ELSE Returned("call tree of " \o found.event \o " by formatter of " \o fmt,
                   "getDetailedCallTree(" \o a.s \o ")")

getResourceContent(a, env) ==
  IF resourceForURL(a.s) = Null THEN Failed("Resource not found")
  ELSE IF env.content = "error" THEN Failed("Could not get resource content: error")
  ELSE Returned(env.content, "getResourceContent(" \o a.s \o ")")

selectEventByKey(a) ==
  LET found == lookupEvent(a.s)
  IN IF found.thrown # "" THEN Thrown(found.thrown)
     ELSE IF found.event = Null THEN Failed("Invalid eventKey")
     ELSE Returned("success", "")

\* The handler of the declared function `name`, which closes over focus f.
handler(name, a, f, fmt, env) ==
  CASE name = "getInsightDetails" -> getInsightDetails(a, f)
    [] name = "getEventByKey" -> getEventByKey(a, f)
    [] name \in {"getMainThreadTrackSummary", "getNetworkTrackSummary"} ->
         getTrackSummary(name, a, fmt, env)
    [] name = "getDetailedCallTree" -> getDetailedCallTree(a, fmt)
    [] name = "getResourceContent" -> getResourceContent(a, env)
    [] name = "selectEventByKey" -> selectEventByKey(a)

\* The function-result cache, were an {error} cached like a result.
handlerCacheWithErrors(cache, f, out) ==
  IF out.status = "error"
    THEN cacheFunctionResult(cache, f, "error", out.value)
    ELSE IF out.key = "" THEN cache ELSE cacheFunctionResult(cache, f, out.key, out.value)

\* The function-result cache after the handler has run.
handlerCache(cache, f, out) ==
  IF out.key = "" THEN cache ELSE cacheFunctionResult(cache, f, out.key, out.value)

\* displayInfoFromArgs(args).action
displayAction(name, a) ==
  CASE name \in {"getMainThreadTrackSummary", "getNetworkTrackSummary"} ->
         name \o "({min: " \o Str(a.min) \o ", max: " \o Str(a.max) \o "})"
    [] OTHER -> name \o "('" \o a.s \o "')"


(***************************************************************************)
(* PerformanceAgent: the response parser.  A text is the sequence of its   *)
(* characters; the scheme prefix of a URL is written as one element.       *)
(***************************************************************************)
\* The backtick character, which a TLA+ string cannot hold.
Backtick == "BACKTICK"

FIVE_BACKTICKS == <<Backtick, Backtick, Backtick, Backtick, Backtick>>

\* String.prototype.trim, startsWith, endsWith and slice(start, -end).
IsSpace(ch) == ch \in {" ", "\n"}

RECURSIVE trimStart(_)
trimStart(s) == IF s # <<>> /\ IsSpace(Head(s)) THEN trimStart(Tail(s)) ELSE s

RECURSIVE trimEnd(_)
trimEnd(s) ==
  IF s # <<>> /\ IsSpace(s[Len(s)]) THEN trimEnd(SubSeq(s, 1, Len(s) - 1)) ELSE s

trim(s) == trimEnd(trimStart(s))

startsWith(s, prefix) == Len(s) >= Len(prefix) /\ SubSeq(s, 1, Len(prefix)) = prefix
endsWith(s, suffix) ==
  Len(s) >= Len(suffix) /\ SubSeq(s, Len(s) - Len(suffix) + 1, Len(s)) = suffix

slice(s, start, fromEnd) ==
  LET from == Min2(start, Len(s))
      to == Max2(Len(s) - fromEnd, 0)
  IN IF from >= to THEN <<>> ELSE SubSeq(s, from + 1, to)

\* parsedTrace.data.NetworkRequests.byTime.find(r => r.args.data.url === urlText)
findRequestByPrefix(urlText) ==
  CASE startsWith(urlText, <<"https://", "a">>) -> "E1"
    [] startsWith(urlText, <<"https://", "b">>) -> "E2"
    [] OTHER -> Null

findRequest(urlText) ==
  CASE urlText = <<"https://", "a">> -> "E1"
    [] urlText = <<"https://", "b">> -> "E2"
    [] OTHER -> Null

\* focus.eventsSerializer.keyForEvent(request): "" when the event has no key.
keyForEvent(event) == IF event = "E1" THEN "r-1" ELSE ""

\* urlRegex: /(\[(.*?)\]\((.*?)\))|(https?:\/\/[^\s<>()]+)/g
NoNewline(s, from, to) == \A p \in from..to : s[p] # "\n"

\* The ends <<j, k>> of a markdown link that starts at i: "](" at j, ")" at k.
markdownEnds(s, i) ==
  {e \in ((i + 1)..(Len(s) - 2)) \X ((i + 3)..Len(s)) :
     /\ e[2] >= e[1] + 2
     /\ s[e[1]] = "]" /\ s[e[1] + 1] = "(" /\ s[e[2]] = ")"
     /\ NoNewline(s, i + 1, e[1] - 1)
     /\ NoNewline(s, e[1] + 2, e[2] - 1)}

UrlChar(ch) == ch \notin {" ", "\n", "<", ">", "(", ")"}

\* The last position of the standalone URL that starts at i.
urlEnd(s, i) ==
  CHOOSE e \in (i + 1)..Len(s) :
    /\ \A p \in (i + 1)..e : UrlChar(s[p])
    /\ e = Len(s) \/ ~UrlChar(s[e + 1])

NoMatch == [kind |-> "none", start |-> 0, mid |-> 0, end |-> 0]

\* The match of urlRegex that starts at position i: the first alternative is a
\* markdown link with lazy text and destination, the second a standalone URL.
matchAt(s, i) ==
  IF s[i] = "[" /\ markdownEnds(s, i) # {}
    THEN LET e == CHOOSE x \in markdownEnds(s, i) :
                    \A y \in markdownEnds(s, i) :
                      x[1] < y[1] \/ (x[1] = y[1] /\ x[2] <= y[2])
         IN [kind |-> "markdown", start |-> i, mid |-> e[1], end |-> e[2]]
    ELSE IF s[i] \in {"https://", "http://"} /\ i < Len(s) /\ UrlChar(s[i + 1])
      THEN [kind |-> "url", start |-> i, mid |-> i, end |-> urlEnd(s, i)]
      ELSE NoMatch

matchText(s, m) == SubSeq(s, m.start, m.end)
linkDest(s, m) == SubSeq(s, m.mid + 2, m.end - 1)
urlTextOf(s, m) == IF m.kind = "markdown" THEN linkDest(s, m) ELSE matchText(s, m)

\* The text of a markdown link: what stands between its brackets.
linkText(s, m) == SubSeq(s, m.start + 1, m.mid - 1)

\* The replacer, were it to keep the text of a markdown link.
replacerKeepingText(s, m) ==
  LET urlText == urlTextOf(s, m)
      request == findRequest(urlText)
  IN IF m.kind = "markdown" /\ startsWith(linkDest(s, m), <<"#">>) THEN matchText(s, m)
     ELSE IF urlText = <<>> THEN matchText(s, m)
     ELSE IF request = Null THEN matchText(s, m)
     ELSE IF keyForEvent(request) = "" THEN matchText(s, m)
     ELSE <<"[">> \o (IF m.kind = "markdown" THEN linkText(s, m) ELSE urlText)
            \o <<"]", "(", "#", keyForEvent(request), ")">>

\* The replacer callback of #parseForKnownUrls.
replacer(s, m) ==
  LET urlText == urlTextOf(s, m)
      request == findRequest(urlText)
  IN IF m.kind = "markdown" /\ startsWith(linkDest(s, m), <<"#">>) THEN matchText(s, m)
     ELSE IF urlText = <<>> THEN matchText(s, m)
     ELSE IF request = Null THEN matchText(s, m)
     ELSE IF keyForEvent(request) = "" THEN matchText(s, m)
     ELSE <<"[">> \o urlText \o <<"]", "(", "#", keyForEvent(request), ")">>

\* response.replace(urlRegex, replacer), from position i on.
RECURSIVE replaceFrom(_, _)
replaceFrom(s, i) ==
  IF i > Len(s) THEN <<>>
  ELSE LET m == matchAt(s, i)
       IN IF m.kind = "none"
            THEN <<s[i]>> \o replaceFrom(s, i + 1)
            ELSE replacer(s, m) \o replaceFrom(s, m.end + 1)

\* #parseForKnownUrls(response), with this.context = c.
parseForKnownUrls(text, c) == IF c = Null THEN text ELSE replaceFrom(text, 1)

\* parseTextResponse, were the fences looked for in the text as received.
parseTextResponseUntrimmed(text, c) ==
  LET known == parseForKnownUrls(text, c)
  IN IF startsWith(known, FIVE_BACKTICKS) /\ endsWith(known, FIVE_BACKTICKS)
       THEN slice(known, Len(FIVE_BACKTICKS), Len(FIVE_BACKTICKS))
       ELSE known

\* parseTextResponse(response): the text it hands to super.parseTextResponse.
parseTextResponse(text, c) ==
  LET known == parseForKnownUrls(text, c)
      trimmed == trim(known)
  IN IF startsWith(trimmed, FIVE_BACKTICKS) /\ endsWith(trimmed, FIVE_BACKTICKS)
       THEN slice(trimmed, Len(FIVE_BACKTICKS), Len(FIVE_BACKTICKS))
       ELSE known


(***************************************************************************)
(* AiAgent.run and the panel: one turn of the conversation                 *)
(***************************************************************************)
NoCall == [name |-> "", args |-> Args("", 0, 0)]

\* The responses the run yields.
Response(type, text, complete) == [type |-> type, text |-> text, complete |-> complete]

\* The item the panel hands to Conversation.addHistoryItem.
HistoryItem(type, text) == [type |-> type, text |-> text]

\* The messages of the view: a user message, then the model's message.
UserMessage(text) ==
  [entity |-> "USER", text |-> text, answer |-> Null, error |-> Null, steps |-> <<>>]
ModelMessage(answer, error, steps) ==
  [entity |-> "MODEL", text |-> Null, answer |-> answer, error |-> error, steps |-> steps]

UserQuery == "test"

\* The text the model has streamed after n chunks of its answer to a request;
\* every chunk carries the whole text so far.
RECURSIVE ChunkText(_)
ChunkText(n) == IF n = 0 THEN "" ELSE ChunkText(n - 1) \o " chunk" \o Str(n)

\* The requests of a turn differ by the function results fed back so far.
AnswerText(n) ==
  "answer after " \o Str(Len(messages[Len(messages)].steps)) \o " calls:" \o ChunkText(n)

\* The view's message list with the model message of the current turn replaced.
setModelMessage(msgs, m) == [msgs EXCEPT ![Len(msgs)] = m]
lastMessage(msgs) == msgs[Len(msgs)]

\* PerformanceAgent.run(query, {selected: c}) up to the first request to the model:
\* clearFacts, #addFacts, then AiAgent.run: enhanceQuery and handleContextDetails.
Run(c, maxTurns) ==
  /\ pc = "idle"
  /\ Len(runLog) < maxTurns
  /\ facts' = runFacts(c, traceFacts, functionCallCacheForFocus)
  /\ traceFacts' = IF c # Null THEN addFactsTraceFacts(c, traceFacts) ELSE traceFacts
  /\ formatter' = IF c # Null THEN addFactsFormatter(c, traceFacts, formatter) ELSE formatter
  /\ declaredFunctions' = enhanceQueryDeclared(declaredFunctions, c, canReadResources)
  /\ declaredFocus' = IF c # Null THEN getItem(c) ELSE Null
  /\ callTreeContextSet' = enhanceQueryCallTreeSet(c, callTreeContextSet)
  /\ lastInsightForEnhancedQuery' = enhanceQueryLastInsight(c, lastInsightForEnhancedQuery)
  /\ enhancedQuery' = enhanceQuery(UserQuery, c, callTreeContextSet, lastInsightForEnhancedQuery)
  /\ hasShownAnalyzeTraceContext' = handleContextDetailsShown(c, hasShownAnalyzeTraceContext)
  /\ events' = <<Response("USER_QUERY", UserQuery, TRUE)>>
                 \o (IF handleContextDetails(c, hasShownAnalyzeTraceContext)
                       THEN <<Response("CONTEXT", "Analyzing trace", TRUE)>> ELSE <<>>)
  /\ runLog' = Append(runLog,
                 [context |-> c,
                  historyLen |-> Len(history),
                  sentCallTree |-> includeCallTree(c, callTreeContextSet),
                  sentInsight |-> includeInsightInfo(c, lastInsightForEnhancedQuery),
                  yieldedContext |-> handleContextDetails(c, hasShownAnalyzeTraceContext)])
  /\ messages' = messages \o <<UserMessage(UserQuery), ModelMessage(Null, Null, <<>>)>>
  /\ pc' = "model"
  /\ selected' = c
  /\ aborted' = FALSE
  /\ partial' = 0
  /\ pendingCall' = NoCall
  /\ UNCHANGED <<functionCallCacheForFocus, history, canReadResources, outerVars, parseVars, callLog>>

\* ModelPartial, were every yielded answer handed to addHistoryItem.
ModelPartialPersisted ==
  /\ pc = "model" /\ ~aborted
  /\ partial < MaxChunks
  /\ partial' = partial + 1
  /\ events' = Append(events, Response("ANSWER", AnswerText(partial + 1), FALSE))
  /\ messages' = setModelMessage(messages,
                   ModelMessage(AnswerText(partial + 1), Null, lastMessage(messages).steps))
  /\ history' = Append(history, HistoryItem("answer", AnswerText(partial + 1)))
  /\ UNCHANGED <<agentVars, baseVars, pc, selected, aborted, pendingCall,
                 canReadResources, outerVars, parseVars, obsVars>>

\* A chunk that is not the last one of the answer: surfaced, not persisted.
ModelPartial ==
  /\ pc = "model" /\ ~aborted
  /\ partial < MaxChunks
  /\ partial' = partial + 1
  /\ events' = Append(events, Response("ANSWER", AnswerText(partial + 1), FALSE))
  /\ messages' = setModelMessage(messages,
                   ModelMessage(AnswerText(partial + 1), Null, lastMessage(messages).steps))
  /\ UNCHANGED <<agentVars, baseVars, pc, selected, aborted, pendingCall, history,
                 canReadResources, outerVars, parseVars, obsVars>>

\* The turn ends: the loop variables of an idle agent.
endTurn ==
  /\ pc' = "idle"
  /\ partial' = 0
  /\ pendingCall' = NoCall
  /\ UNCHANGED <<selected, aborted>>

\* The final chunk of the answer: the turn ends and is written to the history.
ModelFinal ==
  /\ pc = "model" /\ ~aborted
  /\ events' = Append(events, Response("ANSWER", AnswerText(partial + 1), TRUE))
  /\ messages' = setModelMessage(messages,
                   ModelMessage(AnswerText(partial + 1), Null, lastMessage(messages).steps))
  /\ history' = history \o <<HistoryItem("user", UserQuery),
                             HistoryItem("answer", AnswerText(partial + 1))>>
  /\ endTurn
  /\ UNCHANGED <<agentVars, baseVars, canReadResources, outerVars, parseVars, obsVars>>

\* turnError, were a block to keep the answer received so far.
turnErrorKeepingAnswer(error) ==
  /\ events' = Append(events, Response("ERROR", error, TRUE))
  /\ messages' = setModelMessage(messages,
                   ModelMessage(lastMessage(messages).answer, error, lastMessage(messages).steps))
  /\ history' = history \o <<HistoryItem("user", UserQuery), HistoryItem("error", error)>>
  /\ endTurn

\* A fatal error of the turn: BLOCK erases the answer received so far.
turnError(error) ==
  /\ events' = Append(events, Response("ERROR", error, TRUE))
  /\ messages' = setModelMessage(messages,
                   ModelMessage(IF error = "BLOCK" THEN Null ELSE lastMessage(messages).answer,
                                error, lastMessage(messages).steps))
  /\ history' = history \o <<HistoryItem("user", UserQuery), HistoryItem("error", error)>>
  /\ endTurn

\* The model service blocks the answer (recitation action BLOCK).
ModelBlock ==
  /\ pc = "model" /\ ~aborted
  /\ turnError("BLOCK")
  /\ UNCHANGED <<agentVars, baseVars, canReadResources, outerVars, parseVars, obsVars>>

\* The request to the model service fails.
ModelFailure ==
  /\ pc = "model" /\ ~aborted
  /\ turnError("UNKNOWN")
  /\ UNCHANGED <<agentVars, baseVars, canReadResources, outerVars, parseVars, obsVars>>

\* ModelFunctionCall, were a requested call started while another handler runs.
ModelFunctionCallConcurrent(call, maxCalls) ==
  /\ pc \in {"model", "handler"} /\ ~aborted
  /\ Len(callLog) < maxCalls
  /\ IF call.name \in declaredFunctions
       THEN /\ pc' = "handler"
            /\ pendingCall' = call
            /\ partial' = 0
            /\ UNCHANGED <<selected, aborted, events, history, messages>>
       ELSE turnError("UNKNOWN")
  /\ UNCHANGED <<agentVars, baseVars, canReadResources, outerVars, parseVars, obsVars>>

\* The model asks for a function call: the function is looked up by name; an
\* undeclared name fails the turn, a declared one has its handler started.
ModelFunctionCall(call, maxCalls) ==
  /\ pc = "model" /\ ~aborted
  /\ Len(callLog) < maxCalls
  /\ IF call.name \in declaredFunctions
       THEN /\ pc' = "handler"
            /\ pendingCall' = call
            /\ partial' = 0
            /\ UNCHANGED <<selected, aborted, events, history, messages>>
       ELSE turnError("UNKNOWN")
  /\ UNCHANGED <<agentVars, baseVars, canReadResources, outerVars, parseVars, obsVars>>

\* HandlerDone, were an {error} of a handler to end the turn like an exception.
HandlerDoneErrorFatal(env) ==
  /\ pc = "handler"
  /\ LET out == handler(pendingCall.name, pendingCall.args, declaredFocus, formatter, env)
     IN /\ functionCallCacheForFocus' = handlerCache(functionCallCacheForFocus, declaredFocus, out)
        /\ callLog' = Append(callLog,
                        [turn |-> Len(runLog), focus |-> declaredFocus,
                         name |-> pendingCall.name, args |-> pendingCall.args, env |-> env,
                         out |-> out])
        /\ IF aborted
             THEN endTurn /\ UNCHANGED <<events, history, messages>>
             ELSE IF out.status \in {"throw", "error"}
               THEN turnError("UNKNOWN")
               ELSE /\ events' = Append(events,
                                   Response("ACTION",
                                            displayAction(pendingCall.name, pendingCall.args), TRUE))
                    /\ messages' = setModelMessage(messages,
                                     ModelMessage(lastMessage(messages).answer, Null,
                                       Append(lastMessage(messages).steps,
                                              displayAction(pendingCall.name, pendingCall.args))))
                    /\ pc' = "model"
                    /\ partial' = 0
                    /\ pendingCall' = NoCall
                    /\ UNCHANGED <<selected, aborted, history>>
  /\ UNCHANGED <<formatter, lastInsightForEnhancedQuery, hasShownAnalyzeTraceContext,
                 traceFacts, callTreeContextSet, baseVars, canReadResources, outerVars, parseVars,
                 runLog, enhancedQuery>>

\* The handler completes.  It has run whether or not the turn was cancelled in
\* the meantime; the loop then checks the signal before it yields anything.
HandlerDone(env) ==
  /\ pc = "handler"
  /\ LET out == handler(pendingCall.name, pendingCall.args, declaredFocus, formatter, env)
     IN /\ functionCallCacheForFocus' = handlerCache(functionCallCacheForFocus, declaredFocus, out)
        /\ callLog' = Append(callLog,
                        [turn |-> Len(runLog), focus |-> declaredFocus,
                         name |-> pendingCall.name, args |-> pendingCall.args, env |-> env,
                         out |-> out])
        /\ IF aborted
             THEN endTurn /\ UNCHANGED <<events, history, messages>>
             ELSE IF out.status = "throw"
               THEN turnError("UNKNOWN")
               ELSE /\ events' = Append(events,
                                   Response("ACTION",
                                            displayAction(pendingCall.name, pendingCall.args), TRUE))
                    /\ messages' = setModelMessage(messages,
                                     ModelMessage(lastMessage(messages).answer, Null,
                                       Append(lastMessage(messages).steps,
                                              displayAction(pendingCall.name, pendingCall.args))))
                    /\ pc' = "model"
                    /\ partial' = 0
                    /\ pendingCall' = NoCall
                    /\ UNCHANGED <<selected, aborted, history>>
  /\ UNCHANGED <<formatter, lastInsightForEnhancedQuery, hasShownAnalyzeTraceContext,
                 traceFacts, callTreeContextSet, baseVars, canReadResources, outerVars, parseVars,
                 runLog, enhancedQuery>>

\* The text of the model is parsed.
ParseResponse ==
  /\ pc = "model" /\ ~aborted
  /\ linked' = parseForKnownUrls(response, selected)
  /\ parsed' = parseTextResponse(response, selected)
  /\ UNCHANGED <<agentVars, baseVars, loopVars, panelVars, canReadResources, outerVars, obsVars,
                 response>>

\* The user stops the turn: the cancellation signal fires.
Cancel ==
  /\ pc \in {"model", "handler"} /\ ~aborted
  /\ aborted' = TRUE
  /\ UNCHANGED <<agentVars, baseVars, pc, selected, partial, pendingCall, events,
                 panelVars, canReadResources, outerVars, parseVars, obsVars>>

\* Aborted, were the cancelled turn recorded like a failed one.
AbortedRecorded ==
  /\ pc = "model" /\ aborted
  /\ turnError("ABORT")
  /\ UNCHANGED <<agentVars, baseVars, canReadResources, outerVars, parseVars, obsVars>>

\* The loop, waiting for the model, observes the cancellation and ends the run.
Aborted ==
  /\ pc = "model" /\ aborted
  /\ endTurn
  /\ UNCHANGED <<agentVars, baseVars, events, panelVars, canReadResources, outerVars, parseVars, obsVars>>


(***************************************************************************)
(* The inputs: what the user selects and what the model asks for           *)
(***************************************************************************)
Selections == Contexts \cup {Null}

StringCalls ==
  {[name |-> n, args |-> Args(k, 0, 0)] :
     n \in {"getEventByKey", "getDetailedCallTree", "selectEventByKey"},
     k \in {"r-1", "bad", "l-9"}}
    \cup {[name |-> "getInsightDetails", args |-> Args(k, 0, 0)] : k \in {"LCPBreakdown", "Nope"}}
    \cup {[name |-> "getResourceContent", args |-> Args(k, 0, 0)] : k \in {"u1", "missing"}}

BoundsCalls ==
  {[name |-> n, args |-> Args("", b[1], b[2])] :
     n \in {"getMainThreadTrackSummary", "getNetworkTrackSummary"},
     b \in {<<2, 3>>, <<1, 3>>, <<3, 2>>}}

Calls == StringCalls \cup BoundsCalls

\* What the environment decides while a handler runs: the size of a summary and
\* the outcome of resource.requestContentData().
Env(size, content) == [size |-> size, content |-> content]

Envs(name) ==
  CASE name \in {"getMainThreadTrackSummary", "getNetworkTrackSummary"} ->
         {Env("max", "v1"), Env("over", "v1")}
    [] name = "getResourceContent" ->
         {Env("small", "v1"), Env("small", "v2"), Env("small", "error"), Env("over", "big")}
    [] OTHER -> {Env("small", "v1")}

(***************************************************************************)
(* The AI assistance panel: the conversations, their stored history and    *)
(* the input given to the view                                             *)
(***************************************************************************)
\* The context flavors the panel listens to, and the agent of each action.
Flavors == {"DOMNode", "NetworkRequest", "AICallTree", "ActiveInsight", "UISourceCode"}

AgentTypes == {"STYLING", "NETWORK", "PERFORMANCE", "PERFORMANCE_INSIGHT", "FILE"}

PanelActions ==
  {"freestyler.elements-floating-button", "drjones.network-floating-button",
   "drjones.performance-panel-context", "drjones.performance-insight-context",
   "drjones.sources-panel-context"}

agentOfAction(actionId) ==
  CASE actionId = "freestyler.elements-floating-button" -> "STYLING"
    [] actionId = "drjones.network-floating-button" -> "NETWORK"
    [] actionId = "drjones.performance-panel-context" -> "PERFORMANCE"
    [] actionId = "drjones.performance-insight-context" -> "PERFORMANCE_INSIGHT"
    [] actionId = "drjones.sources-panel-context" -> "FILE"

flavorOfAgent(type) ==
  CASE type = "STYLING" -> "DOMNode"
    [] type = "NETWORK" -> "NetworkRequest"
    [] type = "PERFORMANCE" -> "AICallTree"
    [] type = "PERFORMANCE_INSIGHT" -> "ActiveInsight"
    [] type = "FILE" -> "UISourceCode"

\* The items a flavor can be set to.
FlavorItems(fl) ==
  CASE fl = "DOMNode" -> {"node"}
    [] fl = "NetworkRequest" -> {"requestA", "requestA2", "requestB"}
    [] fl = "AICallTree" -> {"treeOfTrace1", "treeOfTrace2"}
    [] fl = "ActiveInsight" -> {"insight"}
    [] fl = "UISourceCode" -> {"file"}

\* The bounds of the trace a call tree belongs to.
traceBoundsOf(item) ==
  IF item = "treeOfTrace2"
    THEN [min |-> TraceBoundsMin, max |-> TraceBoundsMax + 1]
    ELSE [min |-> TraceBoundsMin, max |-> TraceBoundsMax]

\* PerformanceTraceContext.getOrigin()
traceOrigin(bounds) == "trace-" \o Str(bounds.min) \o "-" \o Str(bounds.max)

\* ConversationContext.getOrigin() of the context that wraps an item.
getOrigin(item) ==
  CASE item \in {"treeOfTrace1", "treeOfTrace2", "insight"} -> traceOrigin(traceBoundsOf(item))
    [] item = "requestB" -> "https://b.test"
    [] OTHER -> "https://a.test"

\* isOriginAllowed, were every origin allowed.
isOriginAllowedAnyOrigin(item, agentOrigin) == TRUE

\* ConversationContext.isOriginAllowed(agentOrigin)
isOriginAllowed(item, agentOrigin) == agentOrigin = Null \/ getOrigin(item) = agentOrigin

\* The messages of the chat.
ChatUser(text, imageInput) == [entity |-> "USER", text |-> text, imageInput |-> imageInput]
ChatModel(answer, steps) == [entity |-> "MODEL", answer |-> answer, steps |-> steps]

\* The responses of a run, which are also the items of the stored history.
UserQueryData(text, imageInput) == [type |-> "user", text |-> text, imageInput |-> imageInput]
ActionData(step) == [type |-> "action", text |-> step]
AnswerData(text) == [type |-> "answer", text |-> text]

\* A conversation and the agent that runs it.
NoConversation == [id |-> 0, type |-> Null, history |-> <<>>]
Conversation(id, type) == [id |-> id, type |-> type, history |-> <<>>]
Agent(type) == [type |-> type, origin |-> Null]
NoAgent == Agent(Null)

\* #doConversation, were a user query to start the message list afresh.
handleResponseResetting(msgs, d) ==
  CASE d.type = "user" -> <<ChatUser(d.text, d.imageInput), ChatModel(Null, <<>>)>>
    [] d.type = "action" -> [msgs EXCEPT ![Len(msgs)].steps = Append(@, d.text)]
    [] d.type = "answer" -> [msgs EXCEPT ![Len(msgs)].answer = d.text]

\* #doConversation: what one response of the run does to the message list.
handleResponse(msgs, d) ==
  CASE d.type = "user" -> msgs \o <<ChatUser(d.text, d.imageInput), ChatModel(Null, <<>>)>>
    [] d.type = "action" -> [msgs EXCEPT ![Len(msgs)].steps = Append(@, d.text)]
    [] d.type = "answer" -> [msgs EXCEPT ![Len(msgs)].answer = d.text]

\* The replay of a stored history, were the steps left out.
RECURSIVE doConversationWithoutSteps(_, _)
doConversationWithoutSteps(items, msgs) ==
  IF items = <<>> THEN msgs
  ELSE doConversationWithoutSteps(Tail(items),
         IF Head(items).type = "action" THEN msgs ELSE handleResponse(msgs, Head(items)))

\* #doConversation(conversation.history): the replay of a stored history.
RECURSIVE doConversation(_, _)
doConversation(items, msgs) ==
  IF items = <<>> THEN msgs
  ELSE doConversation(Tail(items), handleResponse(msgs, Head(items)))

\* Conversation.addHistoryItem(item) and the storage it keeps up to date.
addHistoryItem(conv, item) == [conv EXCEPT !.history = Append(@, item)]

upsertHistoryEntry(store, conv) ==
  IF \E i \in 1..Len(store) : store[i].id = conv.id
    THEN [i \in 1..Len(store) |-> IF store[i].id = conv.id THEN conv ELSE store[i]]
    ELSE Append(store, conv)

\* AiHistoryStorage.deleteHistoryEntry(id)
deleteHistoryEntry(store, id) == SelectSeq(store, LAMBDA c : c.id # id)

\* The context the panel selects for the agent of the conversation.
selectedContext ==
  IF conversationAgent = NoAgent THEN Null
  ELSE selectedItems[flavorOfAgent(conversationAgent.type)]

blockedByCrossOrigin ==
  /\ selectedContext # Null
  /\ ~isOriginAllowed(selectedContext, conversationAgent.origin)

isReadOnly == conversation # NoConversation /\ conversationAgent = NoAgent

\* The input the panel gives to the view.
ViewInput ==
  [selectedContext |-> selectedContext,
   blockedByCrossOrigin |-> blockedByCrossOrigin,
   messages |-> chatMessages,
   isReadOnly |-> isReadOnly,
   isLoading |-> isLoading,
   agentType |-> conversation.type,
   inspectElementToggled |-> toggled]

\* The entries of the history menu: one per stored conversation, titled with
\* its first query, or the placeholder.
HistoryMenu ==
  IF historicalConversations = <<>>
    THEN <<"No past conversations">>
    ELSE [i \in 1..Len(historicalConversations) |-> historicalConversations[i].history[1].text]

\* What an operation on the panel leaves alone.
otherThanView == <<assistantVars, gdpVars, focusVars, searchVars, dialogVars>>

\* performUpdate: the view is called with the input of the new state.
performUpdate == view' = [callCount |-> view.callCount + 1, lastCall |-> ViewInput']

CanUpdate == widgetShown /\ view.callCount < MaxViewCalls

\* #updateConversationState with a new agent of the given type, or with none.
startConversation(type) ==
  /\ type # Null => Len(recorded) < MaxConversations
  /\ conversationAgent' = IF type = Null THEN NoAgent ELSE Agent(type)
  /\ conversation' = IF type = Null THEN NoConversation
                     ELSE Conversation(Len(recorded) + 1, type)
  /\ recorded' = IF type = Null THEN recorded ELSE Append(recorded, <<>>)
  /\ chatMessages' = <<>>
  /\ isLoading' = FALSE
  /\ turnResponses' = <<>>

\* wasShown: the panel reads the flavors again and listens to their changes.
WasShown ==
  /\ ~widgetShown /\ view.callCount < MaxViewCalls
  /\ widgetShown' = TRUE
  /\ selectedItems' = flavors
  /\ lastOp' = "wasShown"
  /\ UNCHANGED otherThanView
  /\ UNCHANGED <<flavors, toggled, conversation, conversationAgent, chatMessages, isLoading,
                 historicalConversations, turnResponses, recorded>>
  /\ performUpdate

\* hideWidget: the listeners are removed.
HideWidget ==
  /\ widgetShown
  /\ widgetShown' = FALSE
  /\ lastOp' = "hideWidget"
  /\ UNCHANGED otherThanView
  /\ UNCHANGED <<flavors, toggled, selectedItems, conversation, conversationAgent,
                 chatMessages, isLoading, historicalConversations, turnResponses, recorded,
                 view>>

\* SetFlavor, were the listeners kept while the panel is hidden.
SetFlavorListeningWhenHidden(fl, item) ==
  /\ flavors[fl] # item
  /\ view.callCount < MaxViewCalls
  /\ flavors' = [flavors EXCEPT ![fl] = item]
  /\ lastOp' = "setFlavor"
  /\ UNCHANGED otherThanView
  /\ UNCHANGED <<widgetShown, toggled, conversation, conversationAgent, chatMessages, isLoading,
                 historicalConversations, turnResponses, recorded>>
  /\ selectedItems' = [selectedItems EXCEPT ![fl] = item]
  /\ IF selectedItems[fl] # item THEN performUpdate ELSE UNCHANGED view

\* UI.Context.setFlavor(flavor, item): the listener of a shown panel takes the
\* item over and updates the view.
SetFlavor(fl, item) ==
  /\ flavors[fl] # item
  /\ widgetShown => view.callCount < MaxViewCalls
  /\ flavors' = [flavors EXCEPT ![fl] = item]
  /\ lastOp' = "setFlavor"
  /\ UNCHANGED otherThanView
  /\ UNCHANGED <<widgetShown, toggled, conversation, conversationAgent, chatMessages, isLoading,
                 historicalConversations, turnResponses, recorded>>
  /\ IF widgetShown /\ selectedItems[fl] # item
       THEN selectedItems' = [selectedItems EXCEPT ![fl] = item] /\ performUpdate
       ELSE UNCHANGED <<selectedItems, view>>

\* toggleSearchElementAction.setToggled(!toggled)
ToggleSearchElement ==
  /\ widgetShown => view.callCount < MaxViewCalls
  /\ toggled' = ~toggled
  /\ lastOp' = "setToggled"
  /\ UNCHANGED otherThanView
  /\ UNCHANGED <<widgetShown, flavors, selectedItems, conversation, conversationAgent, chatMessages,
                 isLoading, historicalConversations, turnResponses, recorded>>
  /\ IF widgetShown THEN performUpdate ELSE UNCHANGED view

\* panel.handleAction(actionId): the conversation goes on when its agent is of
\* the action's type; otherwise a conversation with a new agent starts.
HandleAction(actionId) ==
  /\ CanUpdate /\ ~isLoading
  /\ lastOp' = "handleAction"
  /\ UNCHANGED otherThanView
  /\ IF conversationAgent # NoAgent /\ conversationAgent.type = agentOfAction(actionId)
       THEN UNCHANGED <<conversation, conversationAgent, chatMessages, isLoading,
                        turnResponses, recorded>>
       ELSE startConversation(agentOfAction(actionId))
  /\ UNCHANGED <<widgetShown, flavors, toggled, selectedItems, historicalConversations>>
  /\ performUpdate

\* One response of the run in progress reaches the panel.
receive(d) ==
  /\ chatMessages' = handleResponse(chatMessages, d)
  /\ conversation' = addHistoryItem(conversation, d)
  /\ historicalConversations' = upsertHistoryEntry(historicalConversations, conversation')
  /\ turnResponses' = IF d.type = "user" THEN <<d>> ELSE Append(turnResponses, d)
  /\ recorded' = [recorded EXCEPT ![conversation.id] = chatMessages']

\* onTextSubmit(text, imageInput): the run starts; the agent takes the origin
\* of the first context it is run with.
TextSubmit(text, imageInput) ==
  /\ CanUpdate /\ ~isLoading
  /\ conversationAgent # NoAgent
  /\ ~blockedByCrossOrigin
  /\ Len(chatMessages) < 2 * MaxPanelTurns
  /\ lastOp' = "textSubmit"
  /\ UNCHANGED otherThanView
  /\ receive(UserQueryData(text, imageInput))
  /\ conversationAgent' =
       IF conversationAgent.origin = Null /\ selectedContext # Null
         THEN [conversationAgent EXCEPT !.origin = getOrigin(selectedContext)]
         ELSE conversationAgent
  /\ isLoading' = TRUE
  /\ UNCHANGED <<widgetShown, flavors, toggled, selectedItems>>
  /\ performUpdate

\* The agent yields an ACTION for a function call it has serviced.
FunctionStep(step) ==
  /\ isLoading /\ view.callCount < MaxViewCalls
  /\ Len(chatMessages[Len(chatMessages)].steps) < MaxPanelSteps
  /\ lastOp' = "action"
  /\ UNCHANGED otherThanView
  /\ receive(ActionData(step))
  /\ UNCHANGED <<widgetShown, flavors, toggled, selectedItems, conversationAgent, isLoading>>
  /\ performUpdate

\* The agent yields the final answer: the turn is complete.
FinalAnswer(text) ==
  /\ isLoading /\ view.callCount < MaxViewCalls
  /\ lastOp' = "answer"
  /\ UNCHANGED otherThanView
  /\ receive(AnswerData(text))
  /\ isLoading' = FALSE
  /\ UNCHANGED <<widgetShown, flavors, toggled, selectedItems, conversationAgent>>
  /\ performUpdate

\* NewChat, were the messages of the conversation left on display.
NewChatKeepingMessages(default) ==
  /\ CanUpdate
  /\ lastOp' = "newChat"
  /\ UNCHANGED otherThanView
  /\ default # Null => Len(recorded) < MaxConversations
  /\ conversationAgent' = IF default = Null THEN NoAgent ELSE Agent(default)
  /\ conversation' = IF default = Null THEN NoConversation
                     ELSE Conversation(Len(recorded) + 1, default)
  /\ recorded' = IF default = Null THEN recorded ELSE Append(recorded, <<>>)
  /\ isLoading' = FALSE
  /\ turnResponses' = <<>>
  /\ UNCHANGED <<chatMessages, widgetShown, flavors, toggled, selectedItems, historicalConversations>>
  /\ performUpdate

\* onNewChatClick: a conversation with the default agent of the open panel.
NewChat(default) ==
  /\ CanUpdate
  /\ lastOp' = "newChat"
  /\ UNCHANGED otherThanView
  /\ startConversation(default)
  /\ UNCHANGED <<widgetShown, flavors, toggled, selectedItems, historicalConversations>>
  /\ performUpdate

\* onDeleteClick: the current conversation is deleted from the storage.
DeleteChat(default) ==
  /\ CanUpdate
  /\ conversation # NoConversation
  /\ lastOp' = "delete"
  /\ UNCHANGED otherThanView
  /\ historicalConversations' = deleteHistoryEntry(historicalConversations, conversation.id)
  /\ startConversation(default)
  /\ UNCHANGED <<widgetShown, flavors, toggled, selectedItems>>
  /\ performUpdate

\* 'Clear local chats' of the history menu: every stored conversation goes.
ClearLocalChats(default) ==
  /\ CanUpdate
  /\ lastOp' = "clearAll"
  /\ UNCHANGED otherThanView
  /\ historicalConversations' = <<>>
  /\ startConversation(default)
  /\ UNCHANGED <<widgetShown, flavors, toggled, selectedItems>>
  /\ performUpdate

\* An entry of the history menu is chosen: the stored conversation is replayed
\* and shown without an agent.
OpenConversation(i) ==
  /\ CanUpdate
  /\ i \in 1..Len(historicalConversations)
  /\ historicalConversations[i].id # conversation.id
  /\ lastOp' = "openConversation"
  /\ UNCHANGED otherThanView
  /\ conversation' = historicalConversations[i]
  /\ conversationAgent' = NoAgent
  /\ chatMessages' = doConversation(historicalConversations[i].history, <<>>)
  /\ isLoading' = FALSE
  /\ turnResponses' = <<>>
  /\ UNCHANGED <<widgetShown, flavors, toggled, selectedItems, historicalConversations, recorded>>
  /\ performUpdate

\* The panel after createAiAssistancePanel: shown, no flavor set, no
\* conversation, and the view called once.
InitPanel ==
  /\ widgetShown = TRUE
  /\ flavors = [fl \in Flavors |-> Null]
  /\ toggled = FALSE
  /\ selectedItems = [fl \in Flavors |-> Null]
  /\ conversation = NoConversation
  /\ conversationAgent = NoAgent
  /\ chatMessages = <<>>
  /\ isLoading = FALSE
  /\ historicalConversations = <<>>
  /\ turnResponses = <<>>
  /\ recorded = <<>>
  /\ lastOp = "show"
  /\ view = [callCount |-> 1, lastCall |-> ViewInput]


(***************************************************************************)
(* GdpClient: the profile and the eligibility of the user, fetched through *)
(* the host's dispatchHttpRequest and cached as promises                   *)
(***************************************************************************)
\* ErrorType of DispatchHttpRequestClient.
HTTP_RESPONSE_UNAVAILABLE == "HTTP_RESPONSE_UNAVAILABLE"
NOT_FOUND == "NOT_FOUND"
DispatchHttpRequestError(type) == [error |-> "DispatchHttpRequestError", type |-> type]
TypeError == [error |-> "TypeError"]

\* EligibilityStatus.
ELIGIBLE == "ELIGIBLE"
NOT_ELIGIBLE == "NOT_ELIGIBLE"

\* The values a response body parses to.
JsonNull == [kind |-> "null"]
ProfileJson == [kind |-> "object", name |-> "profiles/1"]
EligibilityJson(status) == [kind |-> "object", createProfile |-> status]

\* JSON.parse of a response body: the value, or a SyntaxError.
JSONparse(text) ==
  CASE text = "{name}" -> [ok |-> TRUE, value |-> ProfileJson]
    [] text = "{createProfile:ELIGIBLE}" -> [ok |-> TRUE, value |-> EligibilityJson(ELIGIBLE)]
    [] text = "{createProfile:NOT_ELIGIBLE}" ->
         [ok |-> TRUE, value |-> EligibilityJson(NOT_ELIGIBLE)]
    [] text = "null" -> [ok |-> TRUE, value |-> JsonNull]
    [] OTHER -> [ok |-> FALSE, value |-> JsonNull]

\* A settled promise; a pending one.
Fulfilled(value) == [state |-> "fulfilled", value |-> value]
Rejected(err) == [state |-> "rejected", value |-> err]
Pending == [state |-> "pending", value |-> JsonNull]

\* DispatchHttpRequestClient.makeHttpRequest once the host has answered with
\* a DispatchHttpRequestResult: 404 throws NOT_FOUND, 200 with a body gives
\* the parsed body, anything else throws HTTP_RESPONSE_UNAVAILABLE.
dispatchMakeHttpRequest(result) ==
  IF result.statusCode = 404
    THEN Rejected(DispatchHttpRequestError(NOT_FOUND))
    ELSE IF "response" \in DOMAIN result /\ result.statusCode = 200
      THEN IF JSONparse(result.response).ok
             THEN Fulfilled(JSONparse(result.response).value)
             ELSE Rejected(DispatchHttpRequestError(HTTP_RESPONSE_UNAVAILABLE))
      ELSE Rejected(DispatchHttpRequestError(HTTP_RESPONSE_UNAVAILABLE))

\* isGdpProfilesAvailable() of a host configuration.
isGdpProfilesAvailable(config) ==
  /\ config.devToolsGdpProfiles
  /\ config.devToolsGdpProfilesAvailability
  /\ ~config.isOffTheRecord
  /\ ~config.disabledByEnterprisePolicy

\* GdpClient's makeHttpRequest when called: a rejected promise when the
\* profiles are not available, the pending request otherwise.
makeHttpRequest(config) ==
  IF ~isGdpProfilesAvailable(config)
    THEN Rejected(DispatchHttpRequestError(HTTP_RESPONSE_UNAVAILABLE))
    ELSE Pending

isResponseUnavailableNever(err) == FALSE

\* The first catch of getProfile returns null for this error and goes on to
\* the eligibility check for every other one.
isResponseUnavailable(err) ==
  err.error = "DispatchHttpRequestError" /\ err.type = HTTP_RESPONSE_UNAVAILABLE

\* What a getProfile call resolves to.
GetProfileResponse(profile, isEligible) == [profile |-> profile, isEligible |-> isEligible]
ResolvedNull == [kind |-> "null"]

\* How a block of code completes: it returns a value or throws an error.
Return(value) == [threw |-> FALSE, value |-> value]
Throw(err) == [threw |-> TRUE, value |-> err]

\* The promise of an async function whose body completed: resolved with what
\* it returned, rejected with what it threw.
Resolved(completion) ==
  [pc |-> "done", outcome |-> IF completion.threw THEN "rejected" ELSE "resolved",
   value |-> completion.value]

\* The body of the second try of getProfile, given the settled eligibility
\* promise: awaiting a rejected promise throws, and so does reading
\* createProfile of a null response.
checkEligibilityBody(promise) ==
  IF promise.state = "rejected"
    THEN Throw(promise.value)
    ELSE IF promise.value.kind = "null"
      THEN Throw(TypeError)
      ELSE Return(GetProfileResponse(JsonNull,
             "createProfile" \in DOMAIN promise.value /\ promise.value.createProfile = ELIGIBLE))

\* catch { return null; }
catchReturnNull(completion) == IF completion.threw THEN Return(ResolvedNull) ELSE completion

NoPromise == 0
NewPromise == Len(promises) + 1

\* The promise of a request to path: dispatched tells whether the request
\* went to the host, cleared whether #clearCache has run since it was made.
Request(path, promise) ==
  [path |-> path, dispatched |-> promise.state = "pending", cleared |-> FALSE] @@ promise
Settle(promise, settled) ==
  [promise EXCEPT !.state = settled.state, !.value = settled.value]

\* if (this.#cachedProfilePromise), if (this.#cachedEligibilityPromise), were
\* the cached promise never used.
hasCachedPromiseNever(cached) == FALSE

\* if (this.#cachedProfilePromise), if (this.#cachedEligibilityPromise)
hasCachedPromise(cached) == cached # NoPromise

\* #clearCache: the promises made so far belong to the time before it.
RECURSIVE clearCache(_)
clearCache(made) ==
  IF made = <<>>
    THEN <<>>
    ELSE <<[Head(made) EXCEPT !.cleared = TRUE]>> \o clearCache(Tail(made))
CanRequest == Len(promises) < MaxGdpRequests

\* A getProfile call awaiting promise p in the given try block.
Awaiting(block, p, profilePromise) ==
  [pc |-> block, awaits |-> p, profilePromise |-> profilePromise, eligibilityPromise |-> NoPromise,
   outcome |-> "pending", value |-> ResolvedNull]

\* getProfile() up to its first await: #getProfile awaits the cached promise,
\* or makes the request and caches its promise.
GetProfile ==
  /\ Len(profileCalls) < MaxGdpCalls
  /\ IF hasCachedPromise(cachedProfilePromise)
       THEN /\ profileCalls' = Append(profileCalls,
                 Awaiting("profile", cachedProfilePromise, cachedProfilePromise))
            /\ UNCHANGED <<promises, cachedProfilePromise>>
       ELSE /\ CanRequest
            /\ promises' = Append(promises, Request("profile:get", makeHttpRequest(hostConfig)))
            /\ cachedProfilePromise' = NewPromise
            /\ profileCalls' = Append(profileCalls, Awaiting("profile", NewPromise, NewPromise))
  /\ UNCHANGED <<hostConfig, cachedEligibilityPromise>>
  /\ UNCHANGED <<assistantVars, viewVars, focusVars, searchVars, dialogVars>>

\* The host answers a pending request.  The then-callback of the profile
\* request caches an ELIGIBLE eligibility response when the profile arrives.
HostResponds(p, result) ==
  /\ p \in 1..Len(promises)
  /\ promises[p].state = "pending"
  /\ LET settled == Settle(promises[p], dispatchMakeHttpRequest(result))
         gotProfile == promises[p].path = "profile:get" /\ settled.state = "fulfilled"
     IN IF gotProfile
          THEN /\ promises' = Append([promises EXCEPT ![p] = settled],
                    Request("resolve", Fulfilled(EligibilityJson(ELIGIBLE))))
               /\ cachedEligibilityPromise' = NewPromise
          ELSE /\ promises' = [promises EXCEPT ![p] = settled]
               /\ UNCHANGED cachedEligibilityPromise
  /\ UNCHANGED <<hostConfig, cachedProfilePromise, profileCalls>>
  /\ UNCHANGED <<assistantVars, viewVars, focusVars, searchVars, dialogVars>>

\* getProfile() resumes after the profile promise has settled: the profile,
\* null, or on to #checkEligibility, which awaits the cached promise or makes
\* the request and caches its promise.
ResumeAfterProfile(c) ==
  /\ c \in 1..Len(profileCalls)
  /\ profileCalls[c].pc = "profile"
  /\ LET promise == promises[profileCalls[c].awaits]
     IN /\ promise.state # "pending"
        /\ IF promise.state = "fulfilled"
             THEN /\ profileCalls' = [profileCalls EXCEPT ![c] =
                       Resolved(Return(GetProfileResponse(promise.value, TRUE))) @@ @]
                  /\ UNCHANGED <<promises, cachedEligibilityPromise>>
             ELSE IF isResponseUnavailable(promise.value)
               THEN /\ profileCalls' = [profileCalls EXCEPT ![c] = Resolved(Return(ResolvedNull)) @@ @]
                    /\ UNCHANGED <<promises, cachedEligibilityPromise>>
               ELSE IF hasCachedPromise(cachedEligibilityPromise)
                 THEN /\ profileCalls' = [profileCalls EXCEPT ![c] =
                           [pc |-> "eligibility", awaits |-> cachedEligibilityPromise,
                            eligibilityPromise |-> cachedEligibilityPromise] @@ @]
                      /\ UNCHANGED <<promises, cachedEligibilityPromise>>
                 ELSE /\ promises' = Append(promises,
                           Request("eligibility:check", makeHttpRequest(hostConfig)))
                      /\ cachedEligibilityPromise' = NewPromise
                      /\ profileCalls' = [profileCalls EXCEPT ![c] =
                           [pc |-> "eligibility", awaits |-> NewPromise,
                            eligibilityPromise |-> NewPromise] @@ @]
  /\ UNCHANGED <<hostConfig, cachedProfilePromise>>
  /\ UNCHANGED <<assistantVars, viewVars, focusVars, searchVars, dialogVars>>

\* getProfile() resumes after the eligibility promise has settled.
ResumeAfterEligibility(c) ==
  /\ c \in 1..Len(profileCalls)
  /\ profileCalls[c].pc = "eligibility"
  /\ promises[profileCalls[c].awaits].state # "pending"
  /\ profileCalls' = [profileCalls EXCEPT ![c] =
       Resolved(catchReturnNull(checkEligibilityBody(promises[profileCalls[c].awaits]))) @@ @]
  /\ UNCHANGED <<hostConfig, promises, cachedProfilePromise, cachedEligibilityPromise>>
  /\ UNCHANGED <<assistantVars, viewVars, focusVars, searchVars, dialogVars>>

\* createProfile() whose request the host answers: a parsed response clears
\* both cached promises (#clearCache); an error is swallowed.
CreateProfile(result) ==
  /\ cachedProfilePromise # NoPromise \/ cachedEligibilityPromise # NoPromise
  /\ IF isGdpProfilesAvailable(hostConfig) /\ dispatchMakeHttpRequest(result).state = "fulfilled"
       THEN /\ cachedProfilePromise' = NoPromise /\ cachedEligibilityPromise' = NoPromise
            /\ promises' = clearCache(promises)
       ELSE UNCHANGED <<promises, cachedProfilePromise, cachedEligibilityPromise>>
  /\ UNCHANGED <<hostConfig, profileCalls>>
  /\ UNCHANGED <<assistantVars, viewVars, focusVars, searchVars, dialogVars>>

\* Root.Runtime.hostConfig is updated.
UpdateHostConfig(config) ==
  /\ hostConfig # config
  /\ hostConfig' = config
  /\ UNCHANGED <<promises, cachedProfilePromise, cachedEligibilityPromise, profileCalls>>
  /\ UNCHANGED <<assistantVars, viewVars, focusVars, searchVars, dialogVars>>

\* GdpClient.instance({forceNew: true}) under a host where the profiles are
\* available: nothing cached, nothing requested.
AvailableConfig ==
  [devToolsGdpProfiles |-> TRUE, devToolsGdpProfilesAvailability |-> TRUE,
   isOffTheRecord |-> FALSE, disabledByEnterprisePolicy |-> FALSE]
InitGdp ==
  /\ hostConfig = AvailableConfig
  /\ promises = <<>>
  /\ cachedProfilePromise = NoPromise
  /\ cachedEligibilityPromise = NoPromise
  /\ profileCalls = <<>>


(***************************************************************************)
(* AgentFocus: the focus objects and the AgentFocusData objects they hold  *)
(***************************************************************************)
\* Parsed traces: one with insights, one whose insights are missing.
ParsedTraces == {"trace", "traceWithoutInsights"}
hasInsights(parsedTrace) == parsedTrace = "trace"

\* Trace events: a main-thread event (it forms a call tree), a synthetic
\* network request, and an event that is neither.
TraceEvents == {"mainThreadEvent", "networkRequest", "layoutShift"}
isSyntheticNetworkRequest(event) == event = "networkRequest"

\* AICallTree.fromEvent(event, parsedTrace): the call tree, or null.
AICallTreeFromEvent(event, parsedTrace) ==
  IF event = "mainThreadEvent" THEN "callTreeOf:" \o event ELSE Null
AICallTrees == {AICallTreeFromEvent("mainThreadEvent", "trace")}
callTreeParsedTrace(callTree) == "trace"

AgentFocusData(parsedTrace, event, callTree, insight) ==
  [parsedTrace |-> parsedTrace, event |-> event, callTree |-> callTree, insight |-> insight]

\* #getCallTreeOrEvent, were it to keep the event next to its call tree.
getCallTreeOrEventKeepingEvent(parsedTrace, event) ==
  [callTree |-> IF event # Null THEN AICallTreeFromEvent(event, parsedTrace) ELSE Null,
   event |-> event]

\* #getCallTreeOrEvent(parsedTrace, event)
getCallTreeOrEvent(parsedTrace, event) ==
  LET callTree == IF event # Null THEN AICallTreeFromEvent(event, parsedTrace) ELSE Null
  IN IF callTree # Null
       THEN [callTree |-> callTree, event |-> Null]
       ELSE IF event # Null /\ isSyntheticNetworkRequest(event)
         THEN [callTree |-> Null, event |-> event]
         ELSE [callTree |-> Null, event |-> Null]

\* The getters of a focus read its #data.
dataOf(f) == dataObjects[focuses[f]]

\* new AgentFocus(data) for a new data object: the constructor keeps the
\* object it is given.
newFocus(op, data, event) ==
  /\ Len(focuses) < MaxFocuses
  /\ hasInsights(data.parsedTrace)
  /\ dataObjects' = Append(dataObjects, data)
  /\ focuses' = Append(focuses, Len(dataObjects) + 1)
  /\ focusCall' = [op |-> op, receiver |-> 0, before |-> data, result |-> Len(focuses) + 1,
                   event |-> event]

\* A factory or the constructor throws 'missing insights'.
MissingInsights(parsedTrace) ==
  /\ ~hasInsights(parsedTrace)
  /\ focusCall.op # "throw"
  /\ focusCall' = [op |-> "throw", receiver |-> 0,
                   before |-> AgentFocusData(parsedTrace, Null, Null, Null), result |-> 0,
                   event |-> Null]
  /\ UNCHANGED <<dataObjects, focuses>>
  /\ UNCHANGED <<assistantVars, viewVars, gdpVars, searchVars, dialogVars>>

FromParsedTrace(parsedTrace) ==
  /\ newFocus("fromParsedTrace", AgentFocusData(parsedTrace, Null, Null, Null), Null)
  /\ UNCHANGED <<assistantVars, viewVars, gdpVars, searchVars, dialogVars>>

FromInsight(parsedTrace, insight) ==
  /\ newFocus("fromInsight", AgentFocusData(parsedTrace, Null, Null, insight), Null)
  /\ UNCHANGED <<assistantVars, viewVars, gdpVars, searchVars, dialogVars>>

FromEvent(parsedTrace, event) ==
  /\ LET result == getCallTreeOrEvent(parsedTrace, event)
     IN newFocus("fromEvent",
          AgentFocusData(parsedTrace, result.event, result.callTree, Null), event)
  /\ UNCHANGED <<assistantVars, viewVars, gdpVars, searchVars, dialogVars>>

FromCallTree(callTree) ==
  /\ newFocus("fromCallTree",
       AgentFocusData(callTreeParsedTrace(callTree), Null, callTree, Null), Null)
  /\ UNCHANGED <<assistantVars, viewVars, gdpVars, searchVars, dialogVars>>

\* withInsight(insight): the new focus is constructed on the #data object of
\* the receiver, and the insight is written into that object.
WithInsight(f, insight) ==
  /\ f \in 1..Len(focuses)
  /\ Len(focuses) < MaxFocuses
  /\ focuses' = Append(focuses, focuses[f])
  /\ dataObjects' = [dataObjects EXCEPT ![focuses[f]].insight = insight]
  /\ focusCall' = [op |-> "withInsight", receiver |-> f, before |-> dataOf(f),
                   result |-> Len(focuses) + 1, event |-> Null]
  /\ UNCHANGED <<assistantVars, viewVars, gdpVars, searchVars, dialogVars>>

\* withEvent(event): the new focus is constructed on the #data object of the
\* receiver, and the call tree and the event are written into that object.
WithEvent(f, event) ==
  /\ f \in 1..Len(focuses)
  /\ Len(focuses) < MaxFocuses
  /\ focuses' = Append(focuses, focuses[f])
  /\ LET result == getCallTreeOrEvent(dataOf(f).parsedTrace, event)
     IN dataObjects' = [dataObjects EXCEPT ![focuses[f]].callTree = result.callTree,
                                           ![focuses[f]].event = result.event]
  /\ focusCall' = [op |-> "withEvent", receiver |-> f, before |-> dataOf(f),
                   result |-> Len(focuses) + 1, event |-> event]
  /\ UNCHANGED <<assistantVars, viewVars, gdpVars, searchVars, dialogVars>>

\* No focus has been made.
InitFocus ==
  /\ dataObjects = <<>>
  /\ focuses = <<>>
  /\ focusCall = [op |-> "none", receiver |-> 0, before |-> AgentFocusData("trace", Null, Null, Null),
                  result |-> 0, event |-> Null]


(***************************************************************************)
(* SearchView: indexing, searches, throttled results and the counters.     *)
(* searchView holds the fields of the view, and of the objects it works    *)
(* with what the view can come to observe: the indexing requests its scope *)
(* has not ended, the searches it asked the scope for, the results queued  *)
(* for the throttler.  A progress or a results pane the view has let go of *)
(* is not kept: no handler reads it again.                                 *)
(***************************************************************************)
\* Workspace.SearchConfig.SearchConfig(query, ignoreCase, isRegex), and null.
SearchConfig(query) == [query |-> query, ignoreCase |-> TRUE, isRegex |-> FALSE]
NoSearchConfig == [query |-> Null]

\* The widgets #showPane is given.
emptyStartView == "emptyStartView"
searchingView == "searchingView"
notFoundView == "notFoundView"
NoWidget == "null"
searchResultsPaneWidget == "searchResultsPane"

\* new ProgressProxy(new Progress(), doneCallback, updateCallback), and null:
\* the indexing progress carries #onIndexingFinished as its done callback, the
\* progress of a search carries none.
NewProgress(indexing) == [indexing |-> indexing, canceled |-> FALSE]
NoProgress == [none |-> TRUE]

\* new SearchResultsPane(searchConfig), and null; searchId is the search
\* during which the pane was created.
NewSearchResultsPane(searchConfig, searchId) ==
  [searchConfig |-> searchConfig, searchId |-> searchId, results |-> <<>>]
NoSearchResultsPane == [none |-> TRUE]

\* A search result as the scope reports it; search is the search it belongs to.
SearchResult(search, file, matchesCount) ==
  [search |-> search, file |-> file, matchesCount |-> matchesCount]

showPane(w, widget) == [w EXCEPT !.visiblePane = widget]

\* #updateSearchResultsMessage.  (In the messages the ellipsis character of
\* the UI strings is written as three dots.)
updateSearchResultsMessage(w) ==
  [w EXCEPT !.searchResultsMessage =
     IF w.searchMatchesCount # 0 /\ w.searchResultsCount # 0
       THEN IF w.searchMatchesCount = 1 /\ w.nonEmptySearchResultsCount = 1
              THEN "Found 1 matching line in 1 file."
              ELSE IF w.searchMatchesCount > 1 /\ w.nonEmptySearchResultsCount = 1
                THEN "Found " \o Str(w.searchMatchesCount) \o " matching lines in 1 file."
                ELSE "Found " \o Str(w.searchMatchesCount) \o " matching lines in "
                       \o Str(w.nonEmptySearchResultsCount) \o " files."
       ELSE ""]

\* #searchStarted
searchStarted(w) ==
  updateSearchResultsMessage(
    [showPane(w, searchingView) EXCEPT
       !.searchMatchesCount = 0,
       !.searchResultsCount = 0,
       !.nonEmptySearchResultsCount = 0,
       !.searchMessage = "Searching...",
       !.added = <<>>])

\* #startSearch(searchConfig): the progress is replaced (done is set on the
\* one held, which is never an indexing progress here: NoIndexingProgressIdle)
\* and the scope is asked to search, with callbacks bound to the #searchId.
startSearch(w, searchConfig) ==
  LET w1 == searchStarted([w EXCEPT !.searchConfig = searchConfig,
                                    !.progress = NewProgress(FALSE)])
  IN [w1 EXCEPT !.searches = Append(@, [searchId |-> w1.searchId, finished |-> FALSE])]

\* #onIndexingFinished, were it to start the pending search after a cancelled
\* indexing too.
onIndexingFinishedIgnoringCancel(w) ==
  IF w.progress = NoProgress
    THEN w
    ELSE LET w1 == [w EXCEPT !.progress = NoProgress, !.isIndexing = FALSE,
                             !.searchMessage = ""]
         IN IF w1.pendingSearchConfig = NoSearchConfig
              THEN w1
              ELSE startSearch([w1 EXCEPT !.pendingSearchConfig = NoSearchConfig],
                               w1.pendingSearchConfig)

\* #onIndexingFinished
onIndexingFinished(w) ==
  IF w.progress = NoProgress
    THEN w
    ELSE LET finished == ~w.progress.canceled
             w1 == [w EXCEPT !.progress = NoProgress,
                             !.isIndexing = FALSE,
                             !.searchMessage = IF finished THEN "" ELSE "Indexing interrupted.",
                             !.pendingSearchConfig = IF finished THEN @ ELSE NoSearchConfig]
         IN IF w1.pendingSearchConfig = NoSearchConfig
              THEN w1
              ELSE startSearch([w1 EXCEPT !.pendingSearchConfig = NoSearchConfig],
                               w1.pendingSearchConfig)

\* #startIndexing: the progress is replaced (as in #startSearch) and the scope
\* is asked to index under the new one.
startIndexing(w) ==
  [w EXCEPT !.isIndexing = TRUE,
            !.progress = NewProgress(TRUE),
            !.searchMessage = "Indexing...",
            !.indexings = @ + 1]

\* #stopSearch
stopSearch(w) ==
  LET w1 == IF w.progress # NoProgress /\ ~w.isIndexing
              THEN [w EXCEPT !.progress.canceled = TRUE]
              ELSE w
  IN [w1 EXCEPT !.searchConfig = NoSearchConfig]

\* #resetSearch
resetSearch(w) ==
  [showPane(stopSearch(w), NoWidget) EXCEPT
     !.searchResultsPane = NoSearchResultsPane,
     !.searchMessage = "",
     !.searchResultsMessage = ""]

\* #addSearchResult
addSearchResult(w, searchResult) ==
  updateSearchResultsMessage(
    [w EXCEPT !.searchMatchesCount = @ + searchResult.matchesCount,
              !.searchResultsCount = @ + 1,
              !.nonEmptySearchResultsCount =
                 IF searchResult.matchesCount # 0 THEN @ + 1 ELSE @,
              !.added = Append(@, searchResult)])

\* #addPendingSearchResults, were every result to go to the results pane.
RECURSIVE addEveryResult(_, _)
addEveryResult(w, pending) ==
  IF pending = <<>>
    THEN [w EXCEPT !.pendingSearchResults = <<>>]
    ELSE LET w1 == addSearchResult(w, Head(pending))
             w2 == IF w1.searchResultsPane # NoSearchResultsPane
                     THEN [w1 EXCEPT !.searchResultsPane.results = Append(@, Head(pending))]
                     ELSE w1
         IN addEveryResult(w2, Tail(pending))

\* #addPendingSearchResults: the loop over the pending results.
RECURSIVE addResults(_, _)
addResults(w, pending) ==
  IF pending = <<>>
    THEN [w EXCEPT !.pendingSearchResults = <<>>]
    ELSE LET w1 == addSearchResult(w, Head(pending))
             w2 == IF /\ Head(pending).matchesCount # 0
                      /\ w1.searchResultsPane # NoSearchResultsPane
                     THEN [w1 EXCEPT !.searchResultsPane.results = Append(@, Head(pending))]
                     ELSE w1
         IN addResults(w2, Tail(pending))

addPendingSearchResults(w) == addResults(w, w.pendingSearchResults)

\* #onSearchResult(searchId, searchResult)
onSearchResult(w, searchId, searchResult) ==
  IF searchId # w.searchId \/ w.progress = NoProgress
    THEN w
    ELSE IF w.progress.canceled
      THEN onIndexingFinished(w)
      ELSE LET w1 == IF w.searchResultsPane = NoSearchResultsPane
                       THEN showPane(
                              [w EXCEPT !.searchResultsPane =
                                 NewSearchResultsPane(w.searchConfig, w.searchId)],
                              searchResultsPaneWidget)
                       ELSE w
           IN [w1 EXCEPT !.pendingSearchResults = Append(@, searchResult),
                         !.throttled = TRUE]

\* #onSearchFinished(searchId, finished)
onSearchFinished(w, searchId, finished) ==
  IF searchId # w.searchId \/ w.progress = NoProgress
    THEN w
    ELSE LET w1 == IF w.searchResultsPane = NoSearchResultsPane
                     THEN showPane(w, notFoundView)
                     ELSE w
         IN [w1 EXCEPT !.progress = NoProgress,
                       !.searchMessage =
                          IF finished THEN "Search finished." ELSE "Search interrupted.",
                       !.searchConfig = NoSearchConfig]

\* #onRefresh
onRefresh(w) ==
  LET searchConfig == SearchConfig(w.query)
  IN IF searchConfig.query = ""
       THEN w
       ELSE LET w1 == [resetSearch(w) EXCEPT !.searchId = @ + 1]
                w2 == IF ~w1.isIndexing THEN startIndexing(w1) ELSE w1
            IN [w2 EXCEPT !.pendingSearchConfig = searchConfig]

\* #onClearSearch: #resetSearch, then #onClearSearchInput.
onClearSearch(w) == showPane([resetSearch(w) EXCEPT !.query = ""], emptyStartView)

\* The user types a query (onQueryChange).
QueryChange(query) ==
  /\ searchView.query # query
  /\ searchView' = [searchView EXCEPT !.query = query]
  /\ UNCHANGED <<assistantVars, viewVars, gdpVars, focusVars, dialogVars>>

\* The user presses Enter in the query field or clicks refresh.
Refresh ==
  /\ searchView.query # "" => searchView.searchId < MaxSearchId
  /\ searchView' = onRefresh(searchView)
  /\ UNCHANGED <<assistantVars, viewVars, gdpVars, focusVars, dialogVars>>

\* The user clicks 'Clear search'.
ClearSearch ==
  /\ searchView.visiblePane # emptyStartView
  /\ searchView' = onClearSearch(searchView)
  /\ UNCHANGED <<assistantVars, viewVars, gdpVars, focusVars, dialogVars>>

\* willHide()
WillHide ==
  /\ searchView.searchConfig # NoSearchConfig
  /\ searchView' = stopSearch(searchView)
  /\ UNCHANGED <<assistantVars, viewVars, gdpVars, focusVars, dialogVars>>

\* The progress the view holds is cancelled by whoever was given it.
CancelProgress ==
  /\ searchView.progress # NoProgress
  /\ ~searchView.progress.canceled
  /\ searchView' = [searchView EXCEPT !.progress.canceled = TRUE]
  /\ UNCHANGED <<assistantVars, viewVars, gdpVars, focusVars, dialogVars>>

\* The scope ends an indexing it was asked for: it sets done on the indexing
\* progress, whose done callback is #onIndexingFinished.
IndexingDone ==
  /\ searchView.indexings > 0
  /\ searchView' = onIndexingFinished([searchView EXCEPT !.indexings = @ - 1])
  /\ UNCHANGED <<assistantVars, viewVars, gdpVars, focusVars, dialogVars>>

\* The scope reports a result of search s through the callback bound to the
\* #searchId of its start.
ScopeReportsResult(s, matchesCount) ==
  /\ s \in 1..Len(searchView.searches)
  /\ ~searchView.searches[s].finished
  /\ searchView.reported < MaxSearchResults
  /\ LET result == SearchResult(searchView.searches[s].searchId,
                                searchView.reported + 1, matchesCount)
     IN searchView' =
          onSearchResult([searchView EXCEPT !.reported = @ + 1],
                         searchView.searches[s].searchId, result)
  /\ UNCHANGED <<assistantVars, viewVars, gdpVars, focusVars, dialogVars>>

\* The scope ends search s through the finish callback bound to the #searchId
\* of its start.
ScopeFinishesSearch(s, finished) ==
  /\ s \in 1..Len(searchView.searches)
  /\ ~searchView.searches[s].finished
  /\ searchView' =
       onSearchFinished([searchView EXCEPT !.searches[s].finished = TRUE],
                        searchView.searches[s].searchId, finished)
  /\ UNCHANGED <<assistantVars, viewVars, gdpVars, focusVars, dialogVars>>

\* The throttler runs the scheduled #addPendingSearchResults.
ThrottlerRuns ==
  /\ searchView.throttled
  /\ searchView' = [addPendingSearchResults(searchView) EXCEPT !.throttled = FALSE]
  /\ UNCHANGED <<assistantVars, viewVars, gdpVars, focusVars, dialogVars>>

\* The view after its constructor: nothing searched, the start view shown.
InitSearch ==
  searchView =
    [query |-> "", isIndexing |-> FALSE, searchId |-> 1,
     searchMatchesCount |-> 0, searchResultsCount |-> 0, nonEmptySearchResultsCount |-> 0,
     searchConfig |-> NoSearchConfig, pendingSearchConfig |-> NoSearchConfig,
     searchResultsPane |-> NoSearchResultsPane, progress |-> NoProgress,
     visiblePane |-> emptyStartView,
     searchMessage |-> "", searchResultsMessage |-> "",
     pendingSearchResults |-> <<>>, throttled |-> FALSE,
     indexings |-> 0, searches |-> <<>>, reported |-> 0, added |-> <<>>]

(***************************************************************************)
(* GdpSignUpDialog: sign-up clicks, cancel clicks, the view as last        *)
(* rendered, and the #onSignUpClick calls in flight.                       *)
(***************************************************************************)
ENABLED_ == "ENABLED"
DISABLED_ == "DISABLED"

\* GdpClient.createProfile once the host has answered: the response, or null
\* when the request threw; cleared tells whether #clearCache ran.
createProfile(config, result) ==
  IF isGdpProfilesAvailable(config) /\ dispatchMakeHttpRequest(result).state = "fulfilled"
    THEN [response |-> dispatchMakeHttpRequest(result).value, cleared |-> TRUE]
    ELSE [response |-> JsonNull, cleared |-> FALSE]

\* if (result)
isProfile(result) == result # JsonNull

\* this.requestUpdate()
requestUpdate(d) == [d EXCEPT !.updateRequested = TRUE]

\* #onSignUpClick up to its first await.
OnSignUpClick ==
  /\ signUpDialog.shown
  /\ ~signUpDialog.viewInput.isSigningUp
  /\ Len(signUpDialog.signUps) < MaxSignUps
  /\ signUpDialog' =
       [requestUpdate(signUpDialog) EXCEPT
          !.isSigningUp = TRUE,
          !.signUps = Append(@, [pc |-> "syncInfo", emailPreference |-> DISABLED_])]
  /\ UNCHANGED <<assistantVars, viewVars, gdpVars, focusVars, searchVars>>

\* getSyncInformation answers: createProfile is called with the preference
\* the checkbox has now.
SyncInformation(c) ==
  /\ c \in 1..Len(signUpDialog.signUps)
  /\ signUpDialog.signUps[c].pc = "syncInfo"
  /\ signUpDialog' =
       [signUpDialog EXCEPT
          !.signUps[c] = [pc |-> "createProfile",
                          emailPreference |-> IF signUpDialog.keepMeUpdated
                                                THEN ENABLED_ ELSE DISABLED_]]
  /\ UNCHANGED <<assistantVars, viewVars, gdpVars, focusVars, searchVars>>

\* createProfile completes: with a profile the handler goes on to await
\* UserBadges.initialize(); without one it shows the snackbar and resets
\* #isSigningUp.  A parsed response has cleared the client's cache.
CreateProfileCompletes(c, result) ==
  /\ c \in 1..Len(signUpDialog.signUps)
  /\ signUpDialog.signUps[c].pc = "createProfile"
  /\ LET created == createProfile(hostConfig, result)
     IN /\ IF isProfile(created.response)
             THEN signUpDialog' =
                    [signUpDialog EXCEPT !.signUps[c].pc = "initialize",
                                         !.receiveBadges = TRUE]
             ELSE signUpDialog' =
                    [requestUpdate(signUpDialog) EXCEPT
                       !.signUps[c].pc = "done",
                       !.isSigningUp = FALSE,
                       !.snackbars = @ + 1]
        /\ IF created.cleared
             THEN /\ cachedProfilePromise' = NoPromise
                  /\ cachedEligibilityPromise' = NoPromise
                  /\ promises' = clearCache(promises)
             ELSE UNCHANGED <<promises, cachedProfilePromise, cachedEligibilityPromise>>
  /\ UNCHANGED <<hostConfig, profileCalls>>
  /\ UNCHANGED <<assistantVars, viewVars, focusVars, searchVars>>

\* UserBadges.initialize() resolves: the action is recorded, #onSuccess is
\* called and the dialog hidden.
BadgesInitialized(c) ==
  /\ c \in 1..Len(signUpDialog.signUps)
  /\ signUpDialog.signUps[c].pc = "initialize"
  /\ signUpDialog' =
       [signUpDialog EXCEPT !.signUps[c].pc = "done",
                            !.onSuccess = @ + 1,
                            !.shown = FALSE]
  /\ UNCHANGED <<assistantVars, viewVars, gdpVars, focusVars, searchVars>>

\* onCancelClick of the view input
OnCancelClick ==
  /\ signUpDialog.shown
  /\ signUpDialog' = [signUpDialog EXCEPT !.shown = FALSE, !.onCancel = @ + 1]
  /\ UNCHANGED <<assistantVars, viewVars, gdpVars, focusVars, searchVars>>

\* onKeepMeUpdatedChange of the view input
OnKeepMeUpdatedChange(value) ==
  /\ signUpDialog.shown
  /\ signUpDialog.keepMeUpdated # value
  /\ signUpDialog' = [requestUpdate(signUpDialog) EXCEPT !.keepMeUpdated = value]
  /\ UNCHANGED <<assistantVars, viewVars, gdpVars, focusVars, searchVars>>

\* performUpdate, run for a requested update: the view gets the fields as
\* they are now.
PerformUpdate ==
  /\ signUpDialog.updateRequested
  /\ signUpDialog' =
       [signUpDialog EXCEPT
          !.updateRequested = FALSE,
          !.viewInput = [keepMeUpdated |-> signUpDialog.keepMeUpdated,
                         isSigningUp |-> signUpDialog.isSigningUp]]
  /\ UNCHANGED <<assistantVars, viewVars, gdpVars, focusVars, searchVars>>

\* GdpSignUpDialog.show(): the dialog is shown and rendered, nothing clicked.
InitDialog ==
  signUpDialog =
    [shown |-> TRUE, keepMeUpdated |-> FALSE, isSigningUp |-> FALSE,
     updateRequested |-> FALSE,
     viewInput |-> [keepMeUpdated |-> FALSE, isSigningUp |-> FALSE],
     signUps |-> <<>>, receiveBadges |-> FALSE, snackbars |-> 0,
     onSuccess |-> 0, onCancel |-> 0]

InitOuter == InitPanel /\ InitGdp /\ InitFocus /\ InitSearch /\ InitDialog

(***************************************************************************)
(* The conversation of one agent                                           *)
(***************************************************************************)
InitAgent ==
  /\ formatter = Null
  /\ lastInsightForEnhancedQuery = Null
  /\ hasShownAnalyzeTraceContext = FALSE
  /\ functionCallCacheForFocus = [f \in Foci |-> <<>>]
  /\ traceFacts = <<>>
  /\ callTreeContextSet = {}
  /\ facts = <<>>
  /\ declaredFunctions = {}
  /\ declaredFocus = Null
  /\ pc = "idle"
  /\ selected = Null
  /\ aborted = FALSE
  /\ partial = 0
  /\ pendingCall = NoCall
  /\ events = <<>>
  /\ history = <<>>
  /\ messages = <<>>
  /\ canReadResources \in BOOLEAN
  /\ runLog = <<>>
  /\ callLog = <<>>
  /\ enhancedQuery = ""
  /\ linked = <<>>
  /\ parsed = <<>>

Init == InitAgent /\ response = <<>> /\ InitOuter

\* The calls of the context-switching conversations: one that caches per focus,
\* one declared only for a readable trace, one declared only when not external.
ContextCalls ==
  {[name |-> "getInsightDetails", args |-> Args("LCPBreakdown", 0, 0)],
   [name |-> "getResourceContent", args |-> Args("u1", 0, 0)],
   [name |-> "selectEventByKey", args |-> Args("r-1", 0, 0)]}

StartRun == \E c \in Selections : Run(c, MaxTurns)
RequestCall == \E call \in ContextCalls : ModelFunctionCall(call, MaxCalls)
FinishCall == \E env \in Envs(pendingCall.name) : HandlerDone(env)

\* Turns over every context, with function calls, each ended by a final answer.
Next ==
  \/ StartRun
  \/ RequestCall
  \/ FinishCall
  \/ ModelFinal

Spec == Init /\ [][Next]_vars

\* Every declared function with valid and invalid arguments, over a focus with
\* an insight set, a focus without one and no context.
CallSelections == {"cA", "cE"}

CallStartRun == \E c \in CallSelections : Run(c, MaxCallTurns)
CallRequestCall == \E call \in Calls : ModelFunctionCall(call, MaxFunctionCalls)

CallNext ==
  \/ CallStartRun
  \/ CallRequestCall
  \/ FinishCall
  \/ ModelFinal

CallSpec == Init /\ [][CallNext]_vars

\* The run loop in detail, over two selections and three calls: streamed
\* chunks, blocks, failures and cancellation.
LoopSelections == {Null, "cA"}
LoopCalls ==
  {[name |-> "getInsightDetails", args |-> Args("LCPBreakdown", 0, 0)],
   [name |-> "getEventByKey", args |-> Args("bad", 0, 0)]}

LoopStartRun == \E c \in LoopSelections : Run(c, MaxLoopTurns)
LoopRequestCall == \E call \in LoopCalls : ModelFunctionCall(call, MaxLoopCalls)

LoopNext ==
  \/ LoopStartRun
  \/ ModelPartial
  \/ ModelFinal
  \/ ModelBlock
  \/ ModelFailure
  \/ LoopRequestCall
  \/ FinishCall
  \/ Cancel
  \/ Aborted

LoopSpec == Init /\ [][LoopNext]_vars

\* Errors of handlers and of the model service: calls that return {error} for
\* an unknown key, for invalid bounds and for an oversize summary, and turns
\* that end with an answer, a block or a failure.
ErrorSelections == {"cA"}
ErrorCalls ==
  {[name |-> "getEventByKey", args |-> Args("bad", 0, 0)],
   [name |-> "getMainThreadTrackSummary", args |-> Args("", 3, 2)],
   [name |-> "getNetworkTrackSummary", args |-> Args("", 2, 3)]}

ErrorStartRun == \E c \in ErrorSelections : Run(c, MaxErrorTurns)
ErrorRequestCall == \E call \in ErrorCalls : ModelFunctionCall(call, MaxErrorCalls)

ErrorNext ==
  \/ ErrorStartRun
  \/ ErrorRequestCall
  \/ FinishCall
  \/ ModelFinal
  \/ ModelBlock
  \/ ModelFailure

ErrorSpec == Init /\ [][ErrorNext]_vars

\* The function-result cache over several turns: two foci, two functions that
\* cache, and runs that return to a focus after calls on it.
CacheSelections == {"cA", "cB"}
CacheCalls ==
  {[name |-> "getInsightDetails", args |-> Args("LCPBreakdown", 0, 0)],
   [name |-> "getResourceContent", args |-> Args("u1", 0, 0)]}

CacheStartRun == \E c \in CacheSelections : Run(c, MaxCacheTurns)
CacheRequestCall == \E call \in CacheCalls : ModelFunctionCall(call, MaxCacheCalls)

CacheNext ==
  \/ CacheStartRun
  \/ CacheRequestCall
  \/ FinishCall
  \/ ModelFinal

CacheSpec == Init /\ [][CacheNext]_vars

\* The texts given to the parser.  Fenced texts: whitespace, backticks, an
\* inner text, backticks, whitespace.
Ticks(n) == [i \in 1..n |-> Backtick]
Whitespace == {<<>>, <<" ">>, <<"\n">>}
KnownLink == <<"[", "t", "]", "(", "https://", "a", ")">>
Inner == {<<>>, <<"t">>, <<"t", Backtick, "t">>, <<" ", "t", " ">>, KnownLink}

FenceResponses ==
  {w1 \o Ticks(k1) \o inner \o Ticks(k2) \o w2 :
     w1 \in Whitespace, k1 \in 0..MaxTicks, inner \in Inner,
     k2 \in 0..MaxTicks, w2 \in Whitespace}

\* Texts with links: a few pieces of text, markdown links and standalone URLs.
Pieces ==
  {<<"t">>, <<" ">>, <<"\n">>, <<"[">>, <<")">>, <<"]", "(">>,
   <<"[", "t", "]", "(", "#", "r-1", ")">>,
   KnownLink,
   <<"[", "t", "]", "(", "https://", "b", ")">>,
   <<"[", "t", "]", "(", "https://", "c", ")">>,
   <<"[", "t", "]", "(", ")">>,
   <<"https://", "a">>, <<"https://", "b">>, <<"https://", "c">>,
   <<"https://">>}

RECURSIVE PieceSeqs(_)
PieceSeqs(n) ==
  IF n = 0 THEN {<<>>}
  ELSE PieceSeqs(n - 1) \cup {a \o p : a \in PieceSeqs(n - 1), p \in Pieces}

LinkResponses == PieceSeqs(MaxPieces)

Responses == FenceResponses \cup LinkResponses

ParseSelections == {Null, "cA"}

\* A new agent and the text the model will answer with.
ParseInit == InitAgent /\ response \in Responses /\ InitOuter

ParseStartRun == \E c \in ParseSelections : Run(c, MaxParseTurns)

ParseNext ==
  \/ ParseStartRun
  \/ ParseResponse

ParseSpec == ParseInit /\ [][ParseNext]_vars


\* The panel over conversations of three agents: turns with text and image,
\* function steps, new chat, delete, clear, and the history menu.
Texts == {"test", "test2"}
Images == {Null, "imageinputbytes"}
Steps == {"getStyles"}
Answers == {"test", "test2"}
DefaultAgents == {Null, "STYLING"}
ChatActions == {"freestyler.elements-floating-button", "drjones.network-floating-button"}

PanelHandleAction == \E a \in ChatActions : HandleAction(a)
PanelSetFlavor == \E item \in {"requestA", "requestB"} : SetFlavor("NetworkRequest", item)
PanelTextSubmit == \E text \in Texts, image \in Images : TextSubmit(text, image)
PanelFunctionStep == \E step \in Steps : FunctionStep(step)
PanelFinalAnswer == \E text \in Answers : FinalAnswer(text)
PanelNewChat == \E d \in DefaultAgents : NewChat(d)
PanelDeleteChat == \E d \in DefaultAgents : DeleteChat(d)
PanelClearLocalChats == \E d \in DefaultAgents : ClearLocalChats(d)
PanelOpenConversation == \E i \in 1..MaxConversations : OpenConversation(i)

PanelNext ==
  \/ PanelHandleAction
  \/ PanelSetFlavor
  \/ PanelTextSubmit
  \/ PanelFunctionStep
  \/ PanelFinalAnswer
  \/ PanelNewChat
  \/ PanelDeleteChat
  \/ PanelClearLocalChats
  \/ PanelOpenConversation

PanelSpec == Init /\ [][PanelNext]_vars


\* Contexts of several origins: requests of two sites and call trees of two
\* traces, selected before and after the conversation has sent a query.
OriginActions == {"drjones.network-floating-button", "drjones.performance-panel-context"}
OriginFlavors == {"NetworkRequest", "AICallTree"}

OriginHandleAction == \E a \in OriginActions : HandleAction(a)
OriginSetFlavor == \E fl \in OriginFlavors : \E item \in FlavorItems(fl) : SetFlavor(fl, item)
OriginTextSubmit == TextSubmit("test", Null)
OriginFinalAnswer == FinalAnswer("test")

OriginNext ==
  \/ OriginHandleAction
  \/ OriginSetFlavor
  \/ OriginTextSubmit
  \/ OriginFinalAnswer

OriginSpec == Init /\ [][OriginNext]_vars


\* The panel shown and hidden while the flavors and the element-search toggle
\* change: every flavor, set to an item and back to none.
ViewItem(fl) ==
  CASE fl = "DOMNode" -> "node"
    [] fl = "NetworkRequest" -> "requestA"
    [] fl = "AICallTree" -> "treeOfTrace1"
    [] fl = "ActiveInsight" -> "insight"
    [] fl = "UISourceCode" -> "file"
ViewActions == {"freestyler.elements-floating-button", "drjones.sources-panel-context"}

ViewSetFlavor == \E fl \in Flavors : \E item \in {Null, ViewItem(fl)} : SetFlavor(fl, item)
ViewHandleAction == \E a \in ViewActions : HandleAction(a)

ViewNext ==
  \/ WasShown
  \/ HideWidget
  \/ ViewSetFlavor
  \/ ToggleSearchElement
  \/ ViewHandleAction

ViewSpec == Init /\ [][ViewNext]_vars

\* GdpClient: getProfile calls, the host's answers to their requests, a
\* profile created in between and the host configuration changing.
HostResults ==
  {[statusCode |-> 404],
   [statusCode |-> 200, response |-> "{name}"],
   [statusCode |-> 200, response |-> "{createProfile:ELIGIBLE}"],
   [statusCode |-> 200, response |-> "{createProfile:NOT_ELIGIBLE}"],
   [statusCode |-> 200, response |-> "null"],
   [statusCode |-> 200, response |-> "<html>"],
   [statusCode |-> 500]}
HostConfigs == {AvailableConfig, [AvailableConfig EXCEPT !.isOffTheRecord = TRUE]}

GdpHostResponds == \E p \in 1..MaxGdpRequests : \E result \in HostResults : HostResponds(p, result)
GdpResumeAfterProfile == \E c \in 1..MaxGdpCalls : ResumeAfterProfile(c)
GdpResumeAfterEligibility == \E c \in 1..MaxGdpCalls : ResumeAfterEligibility(c)
GdpCreateProfile == \E result \in {[statusCode |-> 200, response |-> "{name}"], [statusCode |-> 500]} : CreateProfile(result)
GdpUpdateHostConfig == \E config \in HostConfigs : UpdateHostConfig(config)

GdpNext ==
  \/ GetProfile
  \/ GdpHostResponds
  \/ GdpResumeAfterProfile
  \/ GdpResumeAfterEligibility
  \/ GdpCreateProfile
  \/ GdpUpdateHostConfig

GdpSpec == Init /\ [][GdpNext]_vars

\* AgentFocus: focuses made by the factories and derived with withInsight and
\* withEvent, in any order.
FocusInsights == {Null, "I1", "I2"}
FocusFromParsedTrace == \E parsedTrace \in ParsedTraces : FromParsedTrace(parsedTrace)
FocusFromInsight == \E parsedTrace \in ParsedTraces : \E insight \in Insights : FromInsight(parsedTrace, insight)
FocusFromEvent == \E parsedTrace \in ParsedTraces : \E event \in TraceEvents : FromEvent(parsedTrace, event)
FocusFromCallTree == \E callTree \in AICallTrees : FromCallTree(callTree)
FocusMissingInsights == \E parsedTrace \in ParsedTraces : MissingInsights(parsedTrace)
FocusWithInsight == \E f \in 1..MaxFocuses : \E insight \in FocusInsights : WithInsight(f, insight)
FocusWithEvent == \E f \in 1..MaxFocuses : \E event \in TraceEvents \cup {Null} : WithEvent(f, event)

FocusNext ==
  \/ FocusFromParsedTrace
  \/ FocusFromInsight
  \/ FocusFromEvent
  \/ FocusFromCallTree
  \/ FocusMissingInsights
  \/ FocusWithInsight
  \/ FocusWithEvent

FocusSpec == Init /\ [][FocusNext]_vars

\* Conversations of up to four questions over every context, each answered at
\* once: what enhanceQuery sends as the user moves between insights.
InsightStartRun == \E c \in Selections : Run(c, MaxInsightTurns)

InsightNext ==
  \/ InsightStartRun
  \/ ModelFinal

InsightSpec == Init /\ [][InsightNext]_vars

\* The handlers that read #formatter, called in turns over contexts of three
\* different focuses.
FormatterSelections == {"cA", "cB", "cE"}
FormatterCalls ==
  {[name |-> "getMainThreadTrackSummary", args |-> Args("", 2, 3)],
   [name |-> "getNetworkTrackSummary", args |-> Args("", 2, 3)],
   [name |-> "getDetailedCallTree", args |-> Args("r-1", 0, 0)]}

FormatterStartRun == \E c \in FormatterSelections : Run(c, MaxFormatterTurns)
FormatterRequestCall == \E call \in FormatterCalls : ModelFunctionCall(call, MaxFormatterCalls)

FormatterNext ==
  \/ FormatterStartRun
  \/ FormatterRequestCall
  \/ FinishCall
  \/ ModelFinal

FormatterSpec == Init /\ [][FormatterNext]_vars

\* SearchView: queries typed, refreshes, indexing that ends or is cancelled,
\* searches whose results and end arrive at any time, and the throttler.
Queries == {"", "a", "b"}
MatchCounts == {0, 1, 2}

SearchQueryChange == \E query \in Queries : QueryChange(query)
SearchScopeReportsResult ==
  \E s \in 1..MaxSearchId : \E matchesCount \in MatchCounts : ScopeReportsResult(s, matchesCount)
SearchScopeFinishesSearch == \E s \in 1..MaxSearchId : \E finished \in BOOLEAN : ScopeFinishesSearch(s, finished)

SearchNext ==
  \/ SearchQueryChange
  \/ Refresh
  \/ ClearSearch
  \/ WillHide
  \/ CancelProgress
  \/ IndexingDone
  \/ SearchScopeReportsResult
  \/ SearchScopeFinishesSearch
  \/ ThrottlerRuns

SearchSpec == Init /\ [][SearchNext]_vars

\* GdpSignUpDialog: clicks on Sign up and Cancel, the checkbox, renders, and
\* the completions the #onSignUpClick calls await, in any order.
CreateProfileResults ==
  {[statusCode |-> 200, response |-> "{name}"],
   [statusCode |-> 200, response |-> "null"],
   [statusCode |-> 500]}

DialogSyncInformation == \E c \in 1..MaxSignUps : SyncInformation(c)
DialogCreateProfileCompletes ==
  \E c \in 1..MaxSignUps : \E result \in CreateProfileResults : CreateProfileCompletes(c, result)
DialogBadgesInitialized == \E c \in 1..MaxSignUps : BadgesInitialized(c)
DialogOnKeepMeUpdatedChange == \E value \in BOOLEAN : OnKeepMeUpdatedChange(value)

DialogNext ==
  \/ OnSignUpClick
  \/ DialogSyncInformation
  \/ DialogCreateProfileCompletes
  \/ DialogBadgesInitialized
  \/ OnCancelClick
  \/ DialogOnKeepMeUpdatedChange
  \/ PerformUpdate

DialogSpec == Init /\ [][DialogNext]_vars


(***************************************************************************)
(* Properties                                                              *)
(***************************************************************************)
Indices(s) == 1..Len(s)
LastOf(s) == s[Len(s)]
HasEvent(type, complete) ==
  \E i \in Indices(events) : events[i].type = type /\ events[i].complete = complete

\* The successful invocations of callLog that cached under key k for focus f.
CachedCalls(f, k) == {i \in Indices(callLog) : callLog[i].focus = f /\ callLog[i].out.key = k}
CacheKeys(f) == {functionCallCacheForFocus[f][i].key : i \in Indices(functionCallCacheForFocus[f])}
CacheEntry(f, k) ==
  CHOOSE e \in Range(functionCallCacheForFocus[f]) : e.key = k

AppendedHistory == SubSeq(history', Len(history) + 1, Len(history'))
HistoryGrows == Len(history') >= Len(history) /\ SubSeq(history', 1, Len(history)) = history
Yields(type, complete) ==
  /\ Len(events') = Len(events) + 1
  /\ LastOf(events').type = type
  /\ LastOf(events').complete = complete

\* C2: a partial answer chunk writes nothing to the history; the final chunk
\* writes exactly one 'answer' item, whose text is the final combined text; no
\* other step writes an 'answer' item.
C2_OnlyFinalAnswerInHistory ==
  [][/\ HistoryGrows
     /\ Yields("ANSWER", FALSE) => history' = history
     /\ Yields("ANSWER", TRUE) =>
          /\ {i \in Indices(AppendedHistory) : AppendedHistory[i].type = "answer"} # {}
          /\ \A i \in Indices(AppendedHistory) :
               AppendedHistory[i].type = "answer" =>
                 /\ AppendedHistory[i].text = LastOf(events').text
                 /\ AppendedHistory[i].text = AnswerText(partial + 1)
                 /\ \A e \in Range(events) :
                      (e.type = "ANSWER" /\ ~e.complete) => e.text # AppendedHistory[i].text
          /\ Cardinality({i \in Indices(AppendedHistory) :
                            AppendedHistory[i].type = "answer"}) = 1
     /\ (\E i \in Indices(AppendedHistory) : AppendedHistory[i].type = "answer")
          => Yields("ANSWER", TRUE)
    ]_vars

\* A turn streamed a partial chunk and then the final answer, which is the last
\* item of the history.
C2_Witness ==
  /\ pc = "idle"
  /\ HasEvent("ANSWER", FALSE)
  /\ events # <<>> /\ LastOf(events).type = "ANSWER" /\ LastOf(events).complete
  /\ history # <<>> /\ LastOf(history) = HistoryItem("answer", LastOf(events).text)

\* C3: when the model service blocks a turn, the messages of the turn are the
\* user message and one model message with error BLOCK and no answer, and no
\* answer text is written to the history.
C3_BlockErasesAnswer ==
  [][(Yields("ERROR", TRUE) /\ LastOf(events').text = "BLOCK") =>
       /\ Len(messages') = Len(messages)
       /\ Len(messages') >= 2
       /\ messages'[Len(messages') - 1] = UserMessage(UserQuery)
       /\ LastOf(messages').entity = "MODEL"
       /\ LastOf(messages').error = "BLOCK"
       /\ LastOf(messages').answer = Null
       /\ SubSeq(messages', 1, Len(messages') - 1) = SubSeq(messages, 1, Len(messages) - 1)
       /\ HistoryGrows
       /\ \A i \in Indices(AppendedHistory) : AppendedHistory[i].type # "answer"
    ]_vars

\* A turn was blocked after a partial answer had been shown.
C3_Witness ==
  /\ pc = "idle"
  /\ HasEvent("ANSWER", FALSE)
  /\ events # <<>> /\ LastOf(events) = Response("ERROR", "BLOCK", TRUE)
  /\ LastOf(messages).answer = Null /\ LastOf(messages).error = "BLOCK"

\* C4: once the cancellation signal of a turn has fired, the run ends at its next
\* step without yielding an ANSWER or ACTION, and the history has no entry for the
\* turn, whether the loop was waiting for the model or for a handler.
C4_CancelledTurnLeavesNoTrace ==
  /\ [](aborted => Len(history) = LastOf(runLog).historyLen)
  /\ [][(aborted /\ pc # "idle") =>
          /\ pc' = "idle"
          /\ events' = events
          /\ history' = history]_vars
  /\ [][(~aborted /\ aborted') => (pc \in {"model", "handler"} /\ pc' = pc /\ events' = events)]_vars

\* A turn was cancelled while a handler was running: the handler completed, no
\* ACTION was yielded and nothing was written to the history.
C4_Witness ==
  /\ pc = "idle" /\ aborted
  /\ callLog # <<>> /\ LastOf(callLog).turn = Len(runLog)
  /\ ~HasEvent("ACTION", TRUE)
  /\ Len(history) = LastOf(runLog).historyLen


\* The call tree and the insight of the focus of a selection.
treeOf(c) == IF c = Null THEN Null ELSE FocusData(getItem(c)).callTree
insightOf(c) == IF c = Null THEN Null ELSE FocusData(getItem(c)).insight

\* The functions the claim lists for a context.
ExpectedFunctions(c) ==
  IF c = Null THEN {}
  ELSE {"getInsightDetails", "getEventByKey", "getMainThreadTrackSummary",
        "getNetworkTrackSummary", "getDetailedCallTree"}
         \cup {n \in {"getResourceContent"} : canReadResources}
         \cup {n \in {"selectEventByKey"} : ~external(c)}

\* C5: after every enhanceQuery the declared functions are exactly those of its
\* context (none after a null context), with nothing left over from an earlier
\* context; no handler runs for a name that is not declared for the context of
\* its turn.
C5_DeclaredFunctionsFollowContext ==
  /\ runLog # <<>> => declaredFunctions = ExpectedFunctions(LastOf(runLog).context)
  /\ \A i \in Indices(callLog) :
       callLog[i].name \in ExpectedFunctions(runLog[callLog[i].turn].context)
  /\ pc = "handler" => pendingCall.name \in ExpectedFunctions(LastOf(runLog).context)

\* After a context that declared selectEventByKey an external context is
\* selected: the function is gone and a call of an undeclared name failed.
C5_Witness ==
  /\ Len(runLog) >= 2
  /\ "selectEventByKey" \in ExpectedFunctions(runLog[Len(runLog) - 1].context)
  /\ LastOf(runLog).context # Null /\ external(LastOf(runLog).context)
  /\ "selectEventByKey" \notin declaredFunctions
  /\ pc = "idle" /\ LastOf(events) = Response("ERROR", "UNKNOWN", TRUE)

\* The query enhanceQuery returns when it sends what the run log says.
ExpectedQuery(r) ==
  (IF r.sentCallTree
     THEN "User selected the following call tree:\n\n" \o serialize(treeOf(r.context)) \o "\n\n"
     ELSE "")
    \o (IF r.sentInsight
          THEN "User selected the " \o insightKey(insightOf(r.context)) \o " insight.\n\n"
          ELSE "")
    \o (IF r.sentCallTree \/ r.sentInsight THEN "# User query\n\n" ELSE "")
    \o UserQuery

\* C6: the serialization of a call tree is prepended to the query in the first
\* enhanceQuery call whose focus carries that tree and in no later call, whatever
\* was selected in between.
C6_CallTreeSentInFirstCallOnly ==
  /\ \A i \in Indices(runLog) :
       runLog[i].sentCallTree <=>
         /\ treeOf(runLog[i].context) # Null
         /\ \A j \in 1..(i - 1) : treeOf(runLog[j].context) # treeOf(runLog[i].context)
  /\ runLog # <<>> => enhancedQuery = ExpectedQuery(LastOf(runLog))

\* A call tree was sent, another selection without it followed, and a later
\* focus carrying the same tree did not send it again.
C6_Witness ==
  \E i, j, k \in Indices(runLog) :
    /\ i < j /\ j < k
    /\ runLog[i].context = "cC" /\ runLog[i].sentCallTree
    /\ treeOf(runLog[j].context) # "T1"
    /\ runLog[k].context = "cD" /\ ~runLog[k].sentCallTree

\* C7 as stated: the description of an insight object is prepended in exactly one
\* enhanceQuery call, however the user moves between insights.
C7_InsightSentExactlyOnce ==
  \A a \in Insights :
    (\E i \in Indices(runLog) : insightOf(runLog[i].context) = a) =>
      Cardinality({i \in Indices(runLog) :
                     insightOf(runLog[i].context) = a /\ runLog[i].sentInsight}) = 1

\* The calls before call i whose focus had an insight.
InsightCallsBefore(i) == {j \in 1..(i - 1) : insightOf(runLog[j].context) # Null}
MaxOf(S) == CHOOSE x \in S : \A y \in S : y <= x

\* C7 amended: the description of an insight is prepended in the first call that
\* carries it and again in every call that carries it after a call that carried
\* another insight; it is not repeated while the insight-carrying calls stay on
\* the same insight object.
C7_InsightSentOnEverySwitch ==
  \A i \in Indices(runLog) :
    runLog[i].sentInsight <=>
      /\ insightOf(runLog[i].context) # Null
      /\ \/ InsightCallsBefore(i) = {}
         \/ insightOf(runLog[MaxOf(InsightCallsBefore(i))].context)
              # insightOf(runLog[i].context)

\* The user went from one insight to another and back: three descriptions sent.
C7_Witness ==
  /\ Len(runLog) = 3
  /\ insightOf(runLog[1].context) = "I1"
  /\ insightOf(runLog[2].context) = "I2"
  /\ insightOf(runLog[3].context) = "I1"
  /\ \A i \in 1..3 : runLog[i].sentInsight

\* C8 as stated: a CONTEXT response is yielded exactly once for each distinct
\* selected context, on the first turn with that context.
C8_ContextYieldedOncePerContext ==
  \A c \in Contexts :
    LET turnsOf == {i \in Indices(runLog) : runLog[i].context = c}
    IN turnsOf # {} =>
         {i \in turnsOf : runLog[i].yieldedContext}
           = {CHOOSE i \in turnsOf : \A j \in turnsOf : i <= j}

\* C8 amended: a CONTEXT response is yielded exactly once per conversation: on the
\* first turn with a selected context and on no later turn, whichever context it
\* has; a turn with no context yields none and does not use the emission up.
C8_ContextYieldedOncePerConversation ==
  /\ \A i \in Indices(runLog) :
       runLog[i].yieldedContext <=>
         /\ runLog[i].context # Null
         /\ \A j \in 1..(i - 1) : runLog[j].context = Null
  /\ runLog # <<>> =>
       (LastOf(runLog).yieldedContext <=>
          \E i \in Indices(events) : events[i].type = "CONTEXT")

\* A turn without context, then two turns with different contexts: only the
\* second turn yielded a CONTEXT response.
C8_Witness ==
  /\ Len(runLog) = 3
  /\ runLog[1].context = Null
  /\ runLog[2].context # Null /\ runLog[3].context # Null
  /\ runLog[2].context # runLog[3].context
  /\ runLog[2].yieldedContext /\ ~runLog[3].yieldedContext

\* Right after run has rebuilt the facts, before any handler of the turn.
AtRunStart == pc = "model" /\ \A i \in Indices(callLog) : callLog[i].turn # Len(runLog)

\* The facts of a context: the static facts, the summaries of its focus and the
\* function results cached for its focus.
FactsOfContext(c) ==
  IF c = Null THEN {}
  ELSE {callFrameDataDescriptionFact, networkDataDescriptionFact}
         \cup {f \in {notExternalExtraPreambleFact} : ~external(c)}
         \cup {createFactFor(getItem(c), SummaryKinds[k]) :
                 k \in {n \in Indices(SummaryKinds) : formatSummary(getItem(c), SummaryKinds[n]) # ""}}
         \cup Range(cachedFacts(functionCallCacheForFocus, getItem(c)))

\* C9: after a run the fact store holds the facts of the run's context, each
\* once, and nothing carried over from an earlier run; it is empty after a run
\* without context.
C9_FactsAreThoseOfTheContext ==
  AtRunStart =>
    /\ Range(facts) = FactsOfContext(selected)
    /\ Cardinality(Range(facts)) = Len(facts)

IsFunctionFact(f) == f.score = DEFAULT
IsSummaryFact(f) == f \in Range(traceFacts)

\* C10: in a run with a context the facts are added in this order: the static
\* facts (the not-external preamble only for a context that is not external,
\* then the call-frame format, then the network format), then the trace summary
\* facts, then the cached function-call facts.
C10_FactOrder ==
  (runLog # <<>> /\ selected # Null) =>
    LET static == IF ~external(selected)
                    THEN <<notExternalExtraPreambleFact, callFrameDataDescriptionFact,
                           networkDataDescriptionFact>>
                    ELSE <<callFrameDataDescriptionFact, networkDataDescriptionFact>>
        rest == SubSeq(facts, Len(static) + 1, Len(facts))
    IN /\ Len(facts) >= Len(static)
       /\ SubSeq(facts, 1, Len(static)) = static
       /\ \A i \in Indices(rest) : IsSummaryFact(rest[i]) \/ IsFunctionFact(rest[i])
       /\ \A i, j \in Indices(rest) :
            (i < j /\ IsFunctionFact(rest[i])) => IsFunctionFact(rest[j])
       /\ SelectSeq(rest, IsSummaryFact) = traceFacts

\* A run of a context that is not external whose facts end with a summary fact
\* followed by a cached function-call fact.
C10_Witness ==
  /\ selected # Null /\ ~external(selected)
  /\ Len(facts) >= 5
  /\ facts[1] = notExternalExtraPreambleFact
  /\ IsSummaryFact(facts[Len(facts) - 1])
  /\ IsFunctionFact(LastOf(facts))


\* The summary facts of the store: neither a static fact nor a function result.
IsContextSummaryFact(f) ==
  /\ f.score # DEFAULT
  /\ f \notin {notExternalExtraPreambleFact, callFrameDataDescriptionFact,
               networkDataDescriptionFact}

\* C11: after a run with a context the summary facts of the store are the ones
\* the formatter of that context's focus produces, never the ones of a focus
\* selected earlier.
C11_SummaryFactsOfSelectedFocus ==
  (runLog # <<>> /\ selected # Null) =>
    SelectSeq(facts, IsContextSummaryFact)
      = createTraceFacts(getItem(selected), SummaryKinds)

\* C12: a function result cached while one focus is selected is never a fact of
\* a run whose focus is another object: every function-call fact of the store
\* was cached by a call on the focus of the selected context.
C12_FunctionFactsOfSelectedFocusOnly ==
  \A fact \in Range(facts) :
    IsFunctionFact(fact) =>
      /\ selected # Null
      /\ fact.source \in CacheKeys(getItem(selected))
      /\ \E i \in Indices(callLog) :
           /\ callLog[i].focus = getItem(selected)
           /\ callLog[i].out.key = fact.source
           /\ fact = cacheFact(callLog[i].out.key, callLog[i].out.value)

\* Results were cached for two foci under different keys, and a later run of the
\* second focus holds its own result and not the one of the first.
C12_Witness ==
  /\ AtRunStart /\ selected = "cB"
  /\ CacheKeys("F1") = {"getInsightDetails('LCPBreakdown')"}
  /\ CacheKeys("F2") = {"getResourceContent(u1)"}
  /\ {f.source : f \in {g \in Range(facts) : IsFunctionFact(g)}} = {"getResourceContent(u1)"}

\* The result of the most recent successful call on focus f that cached under k.
LatestResult(f, k) ==
  callLog[CHOOSE i \in CachedCalls(f, k) : \A j \in CachedCalls(f, k) : j <= i].out.value

\* C13: no step removes a key from the cache of a focus, and a run with focus f
\* adds, for every key cached for f, a fact carrying the most recent result
\* cached under it: the results of all earlier successful calls on f.
C13_CachedResultsReinjected ==
  /\ [][\A f \in Foci : CacheKeys(f) \subseteq CacheKeys(f)']_vars
  /\ []((AtRunStart /\ selected # Null) =>
          \A k \in CacheKeys(getItem(selected)) :
            /\ CacheEntry(getItem(selected), k).fact \in Range(facts)
            /\ CacheEntry(getItem(selected), k).fact
                 = cacheFact(k, LatestResult(getItem(selected), k)))

\* Two different calls succeeded on one focus and a later run with that focus
\* holds a fact for each of them.
C13_Witness ==
  /\ AtRunStart /\ selected = "cA"
  /\ Cardinality(CacheKeys("F1")) = 2
  /\ \A k \in CacheKeys("F1") : CacheEntry("F1", k).fact \in Range(facts)
  /\ Cardinality({g \in Range(facts) : IsFunctionFact(g)}) = 2

\* The length of the text a handler invocation produced.
ResultLength(e) == summaryLength(e.out.value, e.env.size)

\* C14: no declared function returns a result whose text is longer than
\* MAX_FUNCTION_RESULT_BYTE_LENGTH: such a text makes the handler return an
\* {error} instead, and a text within the budget is returned unchanged.
C14_OversizeResultNeverReturned ==
  \A i \in Indices(callLog) :
    callLog[i].out.status = "result" =>
      ~isFunctionResponseTooLarge(ResultLength(callLog[i]))

\* C15: the key under which a handler caches its result is the action string
\* the function's displayInfoFromArgs returns for the same arguments.
C15_CacheKeyIsDisplayAction ==
  \A i \in Indices(callLog) :
    callLog[i].out.key # "" =>
      callLog[i].out.key = displayAction(callLog[i].name, callLog[i].args)

\* C16: an eventKey that does not resolve to an event makes getEventByKey,
\* getDetailedCallTree and selectEventByKey return {error: 'Invalid eventKey'};
\* no failure of the lookup leaves the handler as a thrown exception.
C16_InvalidEventKeyIsFunctionError ==
  \A i \in Indices(callLog) :
    (/\ callLog[i].name \in {"getEventByKey", "getDetailedCallTree", "selectEventByKey"}
     /\ eventForKey(callLog[i].args.s).event = Null)
      => callLog[i].out = Failed("Invalid eventKey")

\* A step in which a handler completes.
HandlerCompletes == Len(callLog') = Len(callLog) + 1

\* C17: an {error} of a handler (unknown key, invalid bounds, oversize result)
\* is fed back to the model and the turn goes on: no ERROR is yielded and the
\* loop waits for the model again.  A block or a transport failure yields an
\* ERROR and ends the turn, leaving the agent and the earlier messages as they
\* were, idle and ready for the next run.
C17_HandlerErrorsRecoverLoopErrorsEndTurn ==
  /\ [][(HandlerCompletes /\ ~aborted /\ LastOf(callLog').out.status = "error") =>
          /\ pc' = "model"
          /\ pendingCall' = NoCall
          /\ \A i \in Indices(events') : events'[i].type # "ERROR"
          /\ lastMessage(messages').error = Null
          /\ history' = history]_vars
  /\ [][Yields("ERROR", TRUE) =>
          /\ pc = "model" \/ (HandlerCompletes /\ LastOf(callLog').out.status = "throw")
          /\ pc' = "idle" /\ pendingCall' = NoCall /\ partial' = 0
          /\ agentVars' = agentVars \/ HandlerCompletes
          /\ baseVars' = baseVars
          /\ lastMessage(messages').error = LastOf(events').text
          /\ SubSeq(messages', 1, Len(messages') - 1) = SubSeq(messages, 1, Len(messages) - 1)]_vars
  /\ [](pc = "idle" => (pendingCall = NoCall /\ partial = 0))

\* A handler returned an error from an oversize summary, the turn went on and
\* was then blocked; the next turn on the same conversation ended with an answer.
C17_Witness ==
  /\ pc = "idle" /\ Len(runLog) = 2
  /\ Len(callLog) = 1 /\ callLog[1].turn = 1
  /\ callLog[1].out.status = "error" /\ callLog[1].env.size = "over"
  /\ messages[2].error = "BLOCK" /\ Len(messages[2].steps) = 1
  /\ lastMessage(messages).error = Null
  /\ LastOf(history).type = "answer"
  /\ LastOf(history).text = lastMessage(messages).answer

\* The ACTION events among the first n events of the turn.
ActionsBefore(n) == {j \in 1..(n - 1) : events[j].type = "ACTION"}

\* The handler invocations of the current turn that have completed.
CallsOfTurn == {i \in Indices(callLog) : callLog[i].turn = Len(runLog)}

\* C18: within a turn the function calls are serviced one at a time, in the
\* order requested: a handler is started only while no other is running and the
\* call that completes is the one that was started; and the ACTION of a call
\* precedes every ANSWER produced from its result: an answer the model gave
\* after k function results comes after k ACTION events.
C18_CallsOneAtATimeActionBeforeAnswer ==
  /\ [][(pendingCall' # pendingCall /\ pendingCall' # NoCall) =>
          (pc = "model" /\ pendingCall = NoCall /\ pc' = "handler")]_vars
  /\ [][HandlerCompletes =>
          /\ pc = "handler"
          /\ LastOf(callLog').name = pendingCall.name
          /\ LastOf(callLog').args = pendingCall.args
          /\ SubSeq(callLog', 1, Len(callLog)) = callLog
          /\ pendingCall' = NoCall]_vars
  /\ [](\A i \in Indices(events) :
          events[i].type = "ANSWER" =>
            \E n \in 1..(MaxChunks + 1) :
              events[i].text
                = "answer after " \o Str(Cardinality(ActionsBefore(i))) \o " calls:"
                    \o ChunkText(n))
  /\ []((pc = "model" /\ ~aborted) =>
          Cardinality(ActionsBefore(Len(events) + 1))
            = Cardinality({i \in CallsOfTurn : callLog[i].out.status # "throw"}))

\* Two calls were serviced in one turn and the answer followed their two
\* ACTION events.
C18_Witness ==
  /\ pc = "idle"
  /\ Cardinality(CallsOfTurn) = 2
  /\ Cardinality(ActionsBefore(Len(events))) = 2
  /\ LastOf(events) = Response("ANSWER", "answer after 2 calls: chunk1", TRUE)

\* The text of the model has been parsed (the parser never makes a text empty).
HasParsed == pc = "model" /\ (response = <<>> \/ linked # <<>>)

IsFenced(s) == startsWith(trim(s), FIVE_BACKTICKS) /\ endsWith(trim(s), FIVE_BACKTICKS)

\* C19 as stated: for a response whose trimmed text starts and ends with five
\* backticks parseTextResponse removes exactly the leading and the trailing
\* fence and hands on the text between them unchanged; any other response is
\* not stripped.
C19_FenceStrippedExactly ==
  HasParsed =>
    IF IsFenced(response)
      THEN trim(linked) = FIVE_BACKTICKS \o parsed \o FIVE_BACKTICKS
      ELSE parsed = linked

\* C19 amended: the two fences are removed and the text between them is handed
\* on unchanged when the trimmed text has room for both (ten characters or
\* more); a trimmed text of five to nine backticks, where the leading and the
\* trailing fence overlap, is handed on as the empty text; any other response
\* is not stripped.
C19_FenceStrippedUnlessOverlapping ==
  HasParsed =>
    IF IsFenced(response)
      THEN IF Len(trim(linked)) >= 2 * Len(FIVE_BACKTICKS)
             THEN trim(linked) = FIVE_BACKTICKS \o parsed \o FIVE_BACKTICKS
             ELSE /\ parsed = <<>>
                  /\ trim(linked) = Ticks(Len(trim(linked)))
      ELSE parsed = linked

\* A fenced response with whitespace around it and a link to a known request
\* inside: the parser hands on the rewritten link alone.
C19_Witness ==
  /\ HasParsed /\ selected = "cA"
  /\ response = <<"\n">> \o FIVE_BACKTICKS \o KnownLink \o FIVE_BACKTICKS \o <<" ">>
  /\ parsed = <<"[", "https://", "a", "]", "(", "#", "r-1", ")">>

\* The matches of urlRegex in a text, from position i on.
RECURSIVE MatchesFrom(_, _)
MatchesFrom(s, i) ==
  IF i > Len(s) THEN <<>>
  ELSE LET m == matchAt(s, i)
       IN IF m.kind = "none" THEN MatchesFrom(s, i + 1)
          ELSE <<m>> \o MatchesFrom(s, m.end + 1)

\* The links the claim allows to change: there is a context, the destination
\* does not start with '#', and the URL is exactly the URL of the request of
\* the trace that has an event key.
MayRewrite(s, m) ==
  /\ selected # Null
  /\ ~(m.kind = "markdown" /\ startsWith(linkDest(s, m), <<"#">>))
  /\ urlTextOf(s, m) = <<"https://", "a">>

\* By how much the text before position p grows when the links that may change
\* become [url](#key).
RECURSIVE Shift(_, _, _)
Shift(s, ms, p) ==
  IF ms = <<>> THEN 0
  ELSE (IF Head(ms).end < p /\ MayRewrite(s, Head(ms))
          THEN Len(urlTextOf(s, Head(ms))) + 6 - Len(matchText(s, Head(ms)))
          ELSE 0)
         + Shift(s, Tail(ms), p)

\* C20: #parseForKnownUrls leaves unchanged every markdown link whose
\* destination starts with '#', every link or bare URL that is not the exact
\* URL of a request with an event key, every link when there is no context, and
\* all the text outside the links.
C20_OnlyKnownUrlsRewritten ==
  HasParsed =>
    LET ms == MatchesFrom(response, 1)
    IN /\ Len(linked) = Len(response) + Shift(response, ms, Len(response) + 1)
       /\ \A p \in 1..Len(response) :
            (~\E n \in Indices(ms) :
                 MayRewrite(response, ms[n]) /\ p \in ms[n].start..ms[n].end)
              => linked[p + Shift(response, ms, p)] = response[p]

\* A link to an unknown URL followed by the bare URL of a known request: only
\* the second is rewritten.
C20_Witness ==
  /\ HasParsed /\ selected = "cA"
  /\ response = <<"[", "t", "]", "(", "https://", "c", ")", "https://", "a">>
  /\ linked = <<"[", "t", "]", "(", "https://", "c", ")",
                "[", "https://", "a", "]", "(", "#", "r-1", ")">>

\* The internal link [text](#key).
InternalLink(text, key) == <<"[">> \o text \o <<"]", "(", "#", key, ")">>

\* Does the text `linked` hold `expected` where the match m of the response has
\* been rewritten?
RewrittenAs(m, expected) ==
  LET at == m.start + Shift(response, MatchesFrom(response, 1), m.start)
  IN /\ Len(linked) >= at + Len(expected) - 1
     /\ SubSeq(linked, at, at + Len(expected) - 1) = expected

\* The matches of the response that are links or bare URLs of a request with an
\* event key, in a turn with a context.
KnownMatches ==
  {m \in Range(MatchesFrom(response, 1)) :
     /\ MayRewrite(response, m)
     /\ findRequest(urlTextOf(response, m)) # Null
     /\ keyForEvent(findRequest(urlTextOf(response, m))) # ""}

\* C21 as stated: a markdown link [text](url) to a known request with key k
\* becomes [text](#k), keeping the text of the link, and a bare URL u of a known
\* request becomes [u](#k).
C21_LinkTextKept ==
  HasParsed =>
    \A m \in KnownMatches :
      LET k == keyForEvent(findRequest(urlTextOf(response, m)))
      IN IF m.kind = "markdown"
           THEN RewrittenAs(m, InternalLink(linkText(response, m), k))
           ELSE RewrittenAs(m, InternalLink(matchText(response, m), k))

\* C21 amended: a markdown link [text](url) to a known request with key k
\* becomes [url](#k): the URL takes the place of the text of the link; a bare
\* URL u of a known request becomes [u](#k).
C21_UrlBecomesLinkText ==
  HasParsed =>
    \A m \in KnownMatches :
      LET k == keyForEvent(findRequest(urlTextOf(response, m)))
      IN IF m.kind = "markdown"
           THEN RewrittenAs(m, InternalLink(linkDest(response, m), k))
           ELSE RewrittenAs(m, InternalLink(matchText(response, m), k))

\* A markdown link to a known request followed by its bare URL: both become the
\* internal link whose text is the URL.
C21_Witness ==
  /\ HasParsed /\ selected = "cA"
  /\ response = KnownLink \o <<"https://", "a">>
  /\ linked = InternalLink(<<"https://", "a">>, "r-1") \o InternalLink(<<"https://", "a">>, "r-1")

\* The texts of the ACTION responses of the turn, in order.
ActionsOfTurn ==
  LET acts == SelectSeq(turnResponses, LAMBDA d : d.type = "action")
  IN [i \in 1..Len(acts) |-> acts[i].text]

UserItems(items) == SelectSeq(items, LAMBDA d : d.type = "user")

\* C22: a turn appends one user message, with the submitted text and image, and
\* one model message behind the messages of the earlier turns, which no step of
\* the turn changes; when the turn is complete the model message carries the
\* answer and one step per ACTION response, so steps is empty exactly when no
\* ACTION was emitted.
C22_TurnAppendsUserThenModelMessage ==
  /\ [][lastOp' = "textSubmit" =>
          /\ Len(chatMessages') = Len(chatMessages) + 2
          /\ SubSeq(chatMessages', 1, Len(chatMessages)) = chatMessages
          /\ chatMessages'[Len(chatMessages) + 1]
               = ChatUser(turnResponses'[1].text, turnResponses'[1].imageInput)
          /\ chatMessages'[Len(chatMessages) + 2] = ChatModel(Null, <<>>)]_vars
  /\ [][lastOp' \in {"action", "answer"} =>
          /\ Len(chatMessages') = Len(chatMessages)
          /\ SubSeq(chatMessages', 1, Len(chatMessages) - 1)
               = SubSeq(chatMessages, 1, Len(chatMessages) - 1)]_vars
  /\ [](lastOp = "answer" =>
          /\ Len(chatMessages) = 2 * Len(UserItems(conversation.history))
          /\ \A i \in 1..Len(chatMessages) :
               chatMessages[i].entity = IF i % 2 = 1 THEN "USER" ELSE "MODEL"
          /\ chatMessages[Len(chatMessages) - 1]
               = ChatUser(turnResponses[1].text, turnResponses[1].imageInput)
          /\ LastOf(chatMessages) = ChatModel(LastOf(turnResponses).text, ActionsOfTurn)
          /\ (LastOf(chatMessages).steps = <<>>
                <=> \A i \in Indices(turnResponses) : turnResponses[i].type # "action")
          /\ view.lastCall.messages = chatMessages)

\* Two turns of one conversation are complete: the first without image and
\* without function call, the second with an image and one ACTION.
C22_Witness ==
  /\ lastOp = "answer"
  /\ Len(chatMessages) = 4
  /\ chatMessages[1] = ChatUser("test", Null)
  /\ chatMessages[2] = ChatModel("test", <<>>)
  /\ chatMessages[3] = ChatUser("test2", "imageinputbytes")
  /\ chatMessages[4] = ChatModel("test2", <<"getStyles">>)

\* C23: after 'new chat', after the deletion of the current chat and after
\* 'Clear local chats' the view is given an empty message list, whatever was on
\* display before; after 'Clear local chats' the storage is empty as well and
\* the history menu shows only its placeholder.
C23_ChatEmptyAfterNewDeleteClear ==
  /\ lastOp \in {"newChat", "delete", "clearAll"} =>
       /\ chatMessages = <<>>
       /\ view.lastCall.messages = <<>>
       /\ ~view.lastCall.isLoading
  /\ lastOp = "clearAll" =>
       /\ historicalConversations = <<>>
       /\ HistoryMenu = <<"No past conversations">>

\* Two conversations had turns and were stored; 'Clear local chats' left an
\* empty chat, no conversation and an empty history menu.
C23_Witness ==
  /\ lastOp = "clearAll"
  /\ Len(recorded) = 2
  /\ \A i \in Indices(recorded) : Len(recorded[i]) >= 2
  /\ view.lastCall.messages = <<>>
  /\ view.lastCall.agentType = Null
  /\ HistoryMenu = <<"No past conversations">>

HasSentQuery == UserItems(conversation.history) # <<>>

\* C25: the agent of a conversation takes the origin of the context of the
\* first query sent with one and keeps it; from then on the view is told that
\* it is blocked exactly when the selected context has another origin string,
\* and before the conversation has sent a query no context is blocked.  The
\* origin of a call tree's context is 'trace-<min>-<max>' of its trace bounds.
C25_BlockedByOtherOriginOnly ==
  /\ [][lastOp' = "textSubmit" =>
          conversationAgent'.origin
            = IF conversationAgent.origin # Null THEN conversationAgent.origin
              ELSE IF selectedContext # Null THEN getOrigin(selectedContext)
              ELSE Null]_vars
  /\ [][(lastOp' # "textSubmit" /\ conversation'.id = conversation.id) =>
          conversationAgent'.origin = conversationAgent.origin]_vars
  /\ [](view.lastCall.blockedByCrossOrigin <=>
          /\ view.lastCall.selectedContext # Null
          /\ conversationAgent.origin # Null
          /\ getOrigin(view.lastCall.selectedContext) # conversationAgent.origin)
  /\ [](~HasSentQuery => ~view.lastCall.blockedByCrossOrigin)
  /\ [](/\ view.lastCall.selectedContext = "treeOfTrace1" =>
             getOrigin(view.lastCall.selectedContext) = "trace-2-3"
        /\ view.lastCall.selectedContext = "treeOfTrace2" =>
             getOrigin(view.lastCall.selectedContext) = "trace-2-4")

\* A conversation sent a query about a request of https://a.test and a request
\* of https://b.test is selected: the view is told that it is blocked.
C25_Witness ==
  /\ HasSentQuery
  /\ conversationAgent.origin = "https://a.test"
  /\ view.lastCall.selectedContext = "requestB"
  /\ view.lastCall.blockedByCrossOrigin

\* C26: while the panel is hidden no change of a context flavor and no toggle
\* of the element-search action reaches the view: its call count and its last
\* input are the same before and after the change.
C26_HiddenPanelIgnoresFlavorsAndToggle ==
  [][(~widgetShown /\ (flavors' # flavors \/ toggled' # toggled)) =>
       /\ view'.callCount = view.callCount
       /\ view' = view
       /\ selectedItems' = selectedItems]_vars

\* The panel was hidden right after it was created; since then every flavor was
\* set and the toggle switched, and the view has still been called only once.
C26_Witness ==
  /\ ~widgetShown
  /\ \A fl \in Flavors : flavors[fl] # Null
  /\ toggled
  /\ view.callCount = 1
  /\ view.lastCall.selectedContext = Null
  /\ ~view.lastCall.inspectElementToggled

\* What the getProfile calls that have completed awaited.
DoneCalls == {c \in 1..Len(profileCalls) : profileCalls[c].pc = "done"}
ProfileOutcome(c) == promises[profileCalls[c].profilePromise]
EligibilityOutcome(c) == promises[profileCalls[c].eligibilityPromise]
FailedWith(promise, type) ==
  promise.state = "rejected" /\ promise.value = DispatchHttpRequestError(type)
IsEligibilityResponse(promise) ==
  promise.state = "fulfilled" /\ promise.value.kind = "object"

\* C27: getProfile never rejects.  It resolves to {profile, isEligible: true}
\* when the profile request succeeds; when the profile request fails with
\* NOT_FOUND, to {profile: null, isEligible: the eligibility response is
\* ELIGIBLE}; and to null when the profile request fails with another error
\* or the eligibility check fails.
C27_GetProfileResolvesByOutcome ==
  \A c \in DoneCalls :
    LET call == profileCalls[c]
        profile == ProfileOutcome(c)
    IN /\ call.outcome = "resolved"
       /\ profile.state = "fulfilled" =>
            call.value = GetProfileResponse(profile.value, TRUE)
       /\ FailedWith(profile, HTTP_RESPONSE_UNAVAILABLE) => call.value = ResolvedNull
       /\ FailedWith(profile, NOT_FOUND) =>
            /\ call.eligibilityPromise # NoPromise
            /\ IsEligibilityResponse(EligibilityOutcome(c)) =>
                 call.value = GetProfileResponse(JsonNull,
                   EligibilityOutcome(c).value = EligibilityJson(ELIGIBLE))
            /\ ~IsEligibilityResponse(EligibilityOutcome(c)) => call.value = ResolvedNull

\* One call found no profile and a user who is not eligible, another failed
\* on the profile request itself.
C27_Witness ==
  \E c, d \in DoneCalls :
    /\ FailedWith(ProfileOutcome(c), NOT_FOUND)
    /\ profileCalls[c].value = GetProfileResponse(JsonNull, FALSE)
    /\ FailedWith(ProfileOutcome(d), HTTP_RESPONSE_UNAVAILABLE)
    /\ profileCalls[d].value = ResolvedNull

\* The insight of the most recent enhanceQuery call before call i whose focus
\* had an insight, or Null when there was none.
LastInsightBefore(i) ==
  IF InsightCallsBefore(i) = {}
    THEN Null
    ELSE insightOf(runLog[MaxOf(InsightCallsBefore(i))].context)
InsightChanged(i) ==
  insightOf(runLog[i].context) # Null /\ insightOf(runLog[i].context) # LastInsightBefore(i)

\* C28: enhanceQuery prepends 'User selected the <insightKey> insight.' exactly
\* when the focus has an insight other than the insight of the most recent
\* earlier call that had one; it then remembers that insight.  When nothing is
\* prepended the query is returned unchanged, otherwise the query follows under
\* '# User query'.
C28_InsightPrefixOnChangeOnly ==
  /\ \A i \in Indices(runLog) : runLog[i].sentInsight <=> InsightChanged(i)
  /\ lastInsightForEnhancedQuery = LastInsightBefore(Len(runLog) + 1)
  /\ runLog # <<>> =>
       LET r == LastOf(runLog)
           tree == IF r.sentCallTree
                     THEN "User selected the following call tree:\n\n"
                            \o serialize(treeOf(r.context)) \o "\n\n"
                     ELSE ""
       IN enhancedQuery =
            IF InsightChanged(Len(runLog))
              THEN tree \o "User selected the " \o insightKey(insightOf(r.context))
                     \o " insight.\n\n" \o "# User query\n\n" \o UserQuery
              ELSE IF r.sentCallTree
                THEN tree \o "# User query\n\n" \o UserQuery
                ELSE UserQuery

\* A follow-up question on the same insight went out unchanged, the next
\* insight was described, and so was the first one when the user came back.
C28_Witness ==
  /\ Len(runLog) = 4
  /\ runLog[1].context = "cA" /\ runLog[1].sentInsight
  /\ runLog[2].context = "cA" /\ ~runLog[2].sentInsight
  /\ insightOf(runLog[3].context) = "I2" /\ runLog[3].sentInsight
  /\ runLog[4].context = "cA" /\ runLog[4].sentInsight
  /\ enhancedQuery = "User selected the LCPBreakdown insight.\n\n# User query\n\ntest"

\* What the last call on a focus was and the focus it returned.
IsFocusCall(ops) == focusCall.op \in ops
ReturnedData == dataOf(focusCall.result)

\* C29: every focus has at most one of event and callTree non-null, whatever
\* sequence of factories, withInsight and withEvent produced it; fromEvent and
\* withEvent return a call tree and a null event for an event that forms a call
\* tree, the event itself for a synthetic network request, and neither otherwise.
C29_AtMostOneOfEventAndCallTree ==
  /\ \A f \in 1..Len(focuses) : dataOf(f).event = Null \/ dataOf(f).callTree = Null
  /\ IsFocusCall({"fromEvent", "withEvent"}) =>
       LET event == focusCall.event
           callTree == IF event = Null
                         THEN Null
                         ELSE AICallTreeFromEvent(event, ReturnedData.parsedTrace)
       IN /\ callTree # Null => ReturnedData.callTree = callTree /\ ReturnedData.event = Null
          /\ callTree = Null /\ event # Null /\ isSyntheticNetworkRequest(event) =>
               ReturnedData.callTree = Null /\ ReturnedData.event = event
          /\ callTree = Null /\ (event = Null \/ ~isSyntheticNetworkRequest(event)) =>
               ReturnedData.callTree = Null /\ ReturnedData.event = Null

\* A focus on a network request was given a main-thread event: the call tree
\* replaced the event.
C29_Witness ==
  /\ focusCall.op = "withEvent"
  /\ focusCall.event = "mainThreadEvent"
  /\ focusCall.before.event = "networkRequest"
  /\ ReturnedData.callTree # Null /\ ReturnedData.event = Null

\* C30: withInsight and withEvent return a new focus and leave the receiver as
\* it was: after the call the receiver's insight, event and callTree have the
\* values they had before it.
C30_ReceiverUnchanged ==
  IsFocusCall({"withInsight", "withEvent"}) =>
    /\ focusCall.result # focusCall.receiver
    /\ dataOf(focusCall.receiver).insight = focusCall.before.insight
    /\ dataOf(focusCall.receiver).event = focusCall.before.event
    /\ dataOf(focusCall.receiver).callTree = focusCall.before.callTree

\* C31: a handler call that returns {error} leaves the function-result cache of
\* every focus as it was; the cache changes only when a handler has returned a
\* result, and then only in the record of the focus the handler closes over,
\* which holds the result under the key of the call.
C31_ErrorLeavesCacheUnchanged ==
  /\ [][(HandlerCompletes /\ LastOf(callLog').out.status = "error") =>
          functionCallCacheForFocus' = functionCallCacheForFocus]_vars
  /\ [][functionCallCacheForFocus' # functionCallCacheForFocus =>
          /\ HandlerCompletes
          /\ LastOf(callLog').out.status = "result"
          /\ \A f \in Foci \ {LastOf(callLog').focus} :
               functionCallCacheForFocus'[f] = functionCallCacheForFocus[f]
          /\ \E e \in Range(functionCallCacheForFocus'[LastOf(callLog').focus]) :
               /\ e.key = LastOf(callLog').out.key
               /\ e.fact = cacheFact(e.key, LastOf(callLog').out.value)]_vars

\* A result was cached, and the call after it returned an {error} for bounds
\* outside the trace: the cache still holds the one entry.
C31_Witness ==
  /\ Len(callLog) = 2
  /\ callLog[1].out.status = "result" /\ callLog[1].out.key # ""
  /\ callLog[2].name = "getMainThreadTrackSummary"
  /\ callLog[2].out = Failed("invalid bounds")
  /\ callLog[2].focus = callLog[1].focus
  /\ Len(functionCallCacheForFocus[callLog[1].focus]) = 1

\* The declared functions whose handlers read #formatter.
FormatterFunctions ==
  {"getMainThreadTrackSummary", "getNetworkTrackSummary", "getDetailedCallTree"}

\* C32: whenever a handler declared for context c runs inside a turn started
\* with c selected, the formatter it uses is non-null and was constructed from
\* the focus of c, not from the focus of a context selected earlier.
C32_HandlerUsesFormatterOfContext ==
  (/\ pc = "handler"
   /\ pendingCall.name \in FormatterFunctions
   /\ selected # Null
   /\ declaredFocus = getItem(selected)) =>
    /\ formatter # Null
    /\ formatter = getItem(selected)

\* The search with the current #searchId has been started.
CurrentSearchStarted ==
  \E s \in 1..Len(searchView.searches) :
    searchView.searches[s].searchId = searchView.searchId

\* C33: once a refresh has started search N+1, every result counted since the
\* start of the search, and every result in the results pane, belongs to the
\* search with the current #searchId: no result of search N, queued for the
\* throttler or not, reaches the counters, the pane or the messages.
C33_OnlyResultsOfCurrentSearch ==
  CurrentSearchStarted =>
    /\ \A i \in 1..Len(searchView.added) :
         searchView.added[i].search = searchView.searchId
    /\ searchView.searchResultsPane # NoSearchResultsPane =>
         \A i \in 1..Len(searchView.searchResultsPane.results) :
           searchView.searchResultsPane.results[i].search = searchView.searchId

\* Steps of the view: the scope is asked to search, asked to index, a
\* refresh with a non-empty query, the end of the indexing.
SearchStarts == Len(searchView'.searches) = Len(searchView.searches) + 1
IndexingStarts == searchView'.indexings = searchView.indexings + 1
RefreshStep == searchView'.searchId = searchView.searchId + 1
IndexingEnds == searchView.isIndexing /\ ~searchView'.isIndexing

\* The view holds an indexing progress exactly while it is indexing, and the
\* scope then has the one indexing request to end.
NoIndexingProgressIdle ==
  /\ searchView.isIndexing <=>
       (searchView.progress # NoProgress /\ searchView.progress.indexing)
  /\ searchView.indexings = (IF searchView.isIndexing THEN 1 ELSE 0)

RECURSIVE SumMatches(_)
SumMatches(results) ==
  IF results = <<>> THEN 0 ELSE Head(results).matchesCount + SumMatches(Tail(results))
RECURSIVE NonEmptyResults(_)
NonEmptyResults(results) ==
  IF results = <<>>
    THEN 0
    ELSE (IF Head(results).matchesCount # 0 THEN 1 ELSE 0) + NonEmptyResults(Tail(results))

\* The counters are those of the results added since the last search start,
\* and the results panes hold only results with matches.
CountersOfAdded ==
  /\ searchView.nonEmptySearchResultsCount <= searchView.searchResultsCount
  /\ searchView.searchMatchesCount = SumMatches(searchView.added)
  /\ searchView.searchResultsCount = Len(searchView.added)
  /\ searchView.nonEmptySearchResultsCount = NonEmptyResults(searchView.added)
  /\ searchView.searchResultsPane # NoSearchResultsPane =>
       \A i \in 1..Len(searchView.searchResultsPane.results) :
         searchView.searchResultsPane.results[i].matchesCount # 0

\* Right after a search starts the three counters are 0.
ZeroAtSearchStart ==
  SearchStarts =>
    /\ searchView'.searchMatchesCount = 0
    /\ searchView'.searchResultsCount = 0
    /\ searchView'.nonEmptySearchResultsCount = 0

\* The statement of C35 with its clause on the results message: the message
\* is empty exactly when searchMatchesCount = 0 or searchResultsCount = 0.
C35_MessageEmptyExactly ==
  /\ [](/\ CountersOfAdded
        /\ searchView.searchResultsMessage = "" <=>
             (searchView.searchMatchesCount = 0 \/ searchView.searchResultsCount = 0))
  /\ [][ZeroAtSearchStart]_vars

\* C35: the counters are those of the results added since the last search
\* start and are 0 right after a search starts; only results with matches are
\* in a results pane; the results message is empty or the text for the
\* counters, it is the text for the counters after a search start and after a
\* result is added, and it is non-empty only when searchMatchesCount and
\* searchResultsCount are both non-zero.
C35_CountersAndMessage ==
  /\ [](/\ CountersOfAdded
        /\ searchView.searchResultsMessage
             \in {"", updateSearchResultsMessage(searchView).searchResultsMessage}
        /\ searchView.searchResultsMessage # "" =>
             (searchView.searchMatchesCount # 0 /\ searchView.searchResultsCount # 0))
  /\ [][/\ ZeroAtSearchStart
        /\ (SearchStarts \/ searchView'.added # searchView.added) =>
             searchView'.searchResultsMessage
               = updateSearchResultsMessage(searchView').searchResultsMessage]_vars

\* Two results were added, one without matches: the counters differ, the
\* message names one file, and the pane holds the one result with matches.
C35_Witness ==
  /\ searchView.searchResultsCount = 2
  /\ searchView.nonEmptySearchResultsCount = 1
  /\ searchView.searchMatchesCount = 2
  /\ searchView.searchResultsMessage = "Found 2 matching lines in 1 file."
  /\ searchView.searchResultsPane # NoSearchResultsPane
  /\ Len(searchView.searchResultsPane.results) = 1

\* The requests of a path that went to the host since the last #clearCache.
DispatchedSinceClear(path) ==
  {p \in 1..Len(promises) :
     promises[p].path = path /\ promises[p].dispatched /\ ~promises[p].cleared}

\* The getProfile calls that await the profile request made since the last
\* #clearCache.
AwaitingProfile ==
  {c \in 1..Len(profileCalls) :
     /\ profileCalls[c].pc = "profile"
     /\ ~promises[profileCalls[c].awaits].cleared}

\* C37: between two cache clears at most one profile:get and at most one
\* eligibility:check request go to the host; the getProfile calls that
\* overlap await the same promise; and no eligibility:check is made once a
\* profile request of the same period has succeeded.
C37_AtMostOneRequestBetweenClears ==
  /\ [](/\ Cardinality(DispatchedSinceClear("profile:get")) <= 1
        /\ Cardinality(DispatchedSinceClear("eligibility:check")) <= 1
        /\ \A c, d \in AwaitingProfile : profileCalls[c].awaits = profileCalls[d].awaits)
  /\ [][(/\ Len(promises') = Len(promises) + 1
         /\ LastOf(promises').path = "eligibility:check") =>
          ~\E p \in 1..Len(promises) :
             /\ promises[p].path = "profile:get"
             /\ ~promises[p].cleared
             /\ promises[p].state = "fulfilled"]_vars

\* Two getProfile calls overlap: both await the one profile:get request that
\* went to the host, and it is still pending.
C37_Witness ==
  /\ Cardinality(AwaitingProfile) = 2
  /\ Len(promises) = 1
  /\ DispatchedSinceClear("profile:get") = {1}
  /\ promises[1].state = "pending"
  /\ \A c \in AwaitingProfile : profileCalls[c].awaits = 1

\* C36: whatever the order of sign-up clicks, cancel clicks and completions
\* of createProfile, at most one of onSuccess and onCancel is invoked, and at
\* most once.
C36_AtMostOneCallbackOnce ==
  signUpDialog.onSuccess + signUpDialog.onCancel <= 1

====
